---------------------------- MODULE Spec2Model ----------------------------
(***************************************************************************)
(* A model of the Mars Explorer Hub data layer (src/src/data/nasa_client.py)*)
(* One call of a client method is one action: the method's inputs and the  *)
(* bodies the HTTP gateway hands back are chosen by the environment, the   *)
(* method's outcome is computed as the code computes it.                   *)
(*                                                                         *)
(* Python values:                                                          *)
(*   str that the code inspects   a sequence of one-character strings      *)
(*   str that is passed through   a TLA+ string                            *)
(*   dict                         a function on its keys (a JSON object    *)
(*                                whose key order matters: a sequence of   *)
(*                                <<key, value>> pairs)                    *)
(*   None / an optional value     None == <<>>, Some(v) == <<v>>           *)
(***************************************************************************)
EXTENDS Integers, Sequences, FiniteSets, TLC

VARIABLES
    pc,         \* "idle": no call in progress; "done": a call has returned
    fn,         \* the method that was called
    args,       \* its arguments
    requests,   \* the _make_request calls it made, in order: url and returned body
    notices,    \* the st.warning / st.error notices it emitted, in order
    result,     \* what it returned (or the exception that escaped)
    cache,      \* the st.cache_data store: cache key -> entry
    clock,      \* seconds since the process started
    sessions,   \* the concurrent script runs: session -> its position and locals
    environ,    \* where the credential may be: the secret store and os.environ
    view        \* the elements main() has rendered so far, in order

\* the frame of the method call in progress
frame == <<pc, fn, args, requests, notices, result>>

\* the state that outlives a call
shared == <<cache, clock, sessions, environ, view>>

vars == <<pc, fn, args, requests, notices, result,
          cache, clock, sessions, environ, view>>

(***************************************************************************)
(* Bounds of the model.                                                    *)
(***************************************************************************)
MaxDays == 2        \* top-level keys of a weather payload
MaxSols == 2        \* entries of the manifest's day list
MaxImages == 2      \* entries of a per-day image list
MaxPhotos == 3      \* the largest requested num_photos
MaxSuffixLen == 2   \* characters appended to a base instrument code

(***************************************************************************)
(* Python values.                                                          *)
(***************************************************************************)
None == <<>>
Some(v) == <<v>>

EmptyDict == [k \in {} |-> None]

\* dict.get(key): the value, or None
Get(d, key) == IF key \in DOMAIN d THEN Some(d[key]) ELSE None

\* dict.get(key, default)
GetOr(d, key, default) == IF key \in DOMAIN d THEN d[key] ELSE default

\* the elements of a sequence
Range(s) == {s[i] : i \in 1..Len(s)}

\* all sequences over S of length at most n
SeqsUpTo(S, n) == UNION {[1..k -> S] : k \in 0..n}

(***************************************************************************)
(* Characters.  str.isdigit() is true of a non-empty string whose          *)
(* characters all have the Unicode property Numeric_Type=Digit or Decimal; *)
(* int() accepts only the decimal ones.  "sup2" stands for U+00B2          *)
(* SUPERSCRIPT TWO, a digit that is not a decimal.                         *)
(***************************************************************************)
DecimalChars == <<"0", "1", "2", "3", "4", "5", "6", "7", "8", "9">>

OtherDigitChars == {"sup2"}

UpperChars == <<"A","B","C","D","E","F","G","H","I","J","K","L","M",
                "N","O","P","Q","R","S","T","U","V","W","X","Y","Z">>

LowerChars == <<"a","b","c","d","e","f","g","h","i","j","k","l","m",
                "n","o","p","q","r","s","t","u","v","w","x","y","z">>

IndexIn(chars, c) == CHOOSE i \in 1..Len(chars) : chars[i] = c

IsDecimalChar(c) == c \in Range(DecimalChars)

IsDigitChar(c) == IsDecimalChar(c) \/ c \in OtherDigitChars

IsUpperChar(c) == c \in Range(UpperChars)

IsLowerChar(c) == c \in Range(LowerChars)

LowerChar(c) == IF IsUpperChar(c) THEN LowerChars[IndexIn(UpperChars, c)] ELSE c

UpperChar(c) == IF IsLowerChar(c) THEN UpperChars[IndexIn(LowerChars, c)] ELSE c

\* str.isdigit()
isdigit(s) == Len(s) > 0 /\ \A i \in 1..Len(s) : IsDigitChar(s[i])

\* int(s) for a string that passed isdigit(): Some(value), or None for ValueError
RECURSIVE DecimalValue(_)
DecimalValue(s) ==
    IF s = <<>> THEN 0
    ELSE 10 * DecimalValue(SubSeq(s, 1, Len(s) - 1))
         + (IndexIn(DecimalChars, s[Len(s)]) - 1)

int(s) ==
    IF Len(s) > 0 /\ \A i \in 1..Len(s) : IsDecimalChar(s[i])
    THEN Some(DecimalValue(s))
    ELSE None

\* str.lower()
lower(s) == [i \in 1..Len(s) |-> LowerChar(s[i])]


(***************************************************************************)
(* The weather payload: a JSON object, here the sequence of its            *)
(* <<key, value>> pairs in the order dict.keys() yields them.              *)
(***************************************************************************)
WeatherKeys ==
    { <<"0">>, <<"1">>, <<"0","1">>, <<"1","2">>,      \* "0", "1", "01", "12"
      <<"sup2">>,                                        \* U+00B2
      <<"+","1">>, <<"-","1">>,                          \* "+1", "-1"
      <<"s","o","l","_","k","e","y","s">> }              \* "sol_keys"

FullDay ==
    [AT |-> [mn |-> -95, mx |-> -15, av |-> -62],
     PRE |-> [av |-> 750],
     Season |-> "winter",
     First_UTC |-> "2020-10-19T18:32:20Z"]

\* day entries with sub-objects and sub-fields missing
DayEntries ==
    { FullDay,
      EmptyDict,
      [AT |-> [mn |-> -90], Season |-> "summer"],
      [AT |-> EmptyDict, PRE |-> EmptyDict, First_UTC |-> "2020-10-20T19:11:55Z"] }

HasDistinctKeys(data) ==
    \A i, j \in 1..Len(data) : data[i][1] = data[j][1] => i = j

WeatherPayloads ==
    {data \in SeqsUpTo(WeatherKeys \X DayEntries, MaxDays) : HasDistinctKeys(data)}

\* what _make_request returns: None, or the parsed JSON body
WeatherResponses == {None} \cup {Some(data) : data \in WeatherPayloads}

\* data.keys()
keys(data) == [i \in 1..Len(data) |-> data[i][1]]

\* data[key]
item(data, key) == data[CHOOSE i \in 1..Len(data) : data[i][1] = key][2]

\* [key for key in data.keys() if key.isdigit()]
sol_keys_of(data) == SelectSeq(keys(data), isdigit)

(***************************************************************************)
(* One iteration of the loop over sol_keys: the record appended for a day. *)
(***************************************************************************)
weather_record_no_season_default(sol, sol_data) ==
    LET temp_data == GetOr(sol_data, "AT", EmptyDict)
        pressure_data == GetOr(sol_data, "PRE", EmptyDict)
    IN  [sol |-> int(sol)[1],
         min_temp_c |-> Get(temp_data, "mn"),
         max_temp_c |-> Get(temp_data, "mx"),
         avg_temp_c |-> Get(temp_data, "av"),
         pressure_pa |-> Get(pressure_data, "av"),
         season |-> GetOr(sol_data, "Season", ""),
         earth_date |-> Get(sol_data, "First_UTC")]

weather_record(sol, sol_data) ==
    LET temp_data == GetOr(sol_data, "AT", EmptyDict)
        pressure_data == GetOr(sol_data, "PRE", EmptyDict)
    IN  [sol |-> int(sol)[1],
         min_temp_c |-> Get(temp_data, "mn"),
         max_temp_c |-> Get(temp_data, "mx"),
         avg_temp_c |-> Get(temp_data, "av"),
         pressure_pa |-> Get(pressure_data, "av"),
         season |-> GetOr(sol_data, "Season", "Unknown"),
         earth_date |-> Get(sol_data, "First_UTC")]

(***************************************************************************)
(* df.sort_values('sol', ascending=False): an insertion sort on sol,       *)
(* largest first.  Records with equal sol keep their relative order.       *)
(***************************************************************************)
RECURSIVE InsertBySol(_, _, _)
InsertBySol(r, sorted, ascending) ==
    IF sorted = <<>> THEN <<r>>
    ELSE IF (IF ascending THEN sorted[1].sol <= r.sol ELSE sorted[1].sol >= r.sol)
         THEN <<sorted[1]>> \o InsertBySol(r, Tail(sorted), ascending)
         ELSE <<r>> \o sorted

RECURSIVE SortBySol(_, _)
SortBySol(records, ascending) ==
    IF records = <<>> THEN <<>>
    ELSE InsertBySol(records[Len(records)],
                     SortBySol(SubSeq(records, 1, Len(records) - 1), ascending),
                     ascending)

sort_values_ascending(records) == SortBySol(records, TRUE)

sort_values(records) == SortBySol(records, FALSE)

(***************************************************************************)
(* get_mars_weather, given what its one _make_request call returned.       *)
(* kind: "None" (no data), "DataFrame" (records holds the rows in order),  *)
(* or "ValueError" (int(sol) raised and the exception left the method).    *)
(***************************************************************************)
get_mars_weather(response) ==
    IF response = None \/ response[1] = <<>>
    THEN [kind |-> "None", records |-> <<>>, notices |-> <<>>]
    ELSE
      LET data == response[1]
          sol_keys == sol_keys_of(data)
      IN  IF sol_keys = <<>>
          THEN [kind |-> "None", records |-> <<>>,
                notices |-> <<"warning: No weather data available">>]
          ELSE IF \E i \in 1..Len(sol_keys) : int(sol_keys[i]) = None
          THEN [kind |-> "ValueError", records |-> <<>>, notices |-> <<>>]
          ELSE
            LET weather_records ==
                  [i \in 1..Len(sol_keys) |->
                      weather_record(sol_keys[i], item(data, sol_keys[i]))]
            IN  [kind |-> "DataFrame",
                 records |-> sort_values(weather_records),
                 notices |-> <<>>]

(***************************************************************************)
(* The state machine.                                                      *)
(***************************************************************************)
Init ==
    /\ pc = "idle"
    /\ fn = "none"
    /\ args = <<>>
    /\ requests = <<>>
    /\ notices = <<>>
    /\ result = None
    /\ cache = <<>>
    /\ clock = 0
    /\ sessions = <<>>
    /\ environ = [has_streamlit |-> TRUE, secrets |-> None,
                  env |-> ("NASA_API_KEY" :> "DEMO_KEY")]
    /\ view = <<>>

\* the next interaction: the frame of the finished call is dropped
Rerun ==
    /\ pc = "done"
    /\ pc' = "idle"
    /\ fn' = "none"
    /\ args' = <<>>
    /\ requests' = <<>>
    /\ notices' = <<>>
    /\ result' = None
    /\ UNCHANGED shared

MARS_WEATHER_ENDPOINT ==
    [template |-> "https://api.nasa.gov/insight_weather/", sol |-> None]

CallGetMarsWeather ==
    /\ pc = "idle"
    /\ \E response \in WeatherResponses :
          LET out == get_mars_weather(response)
          IN  /\ requests' = <<[url |-> MARS_WEATHER_ENDPOINT, response |-> response]>>
              /\ notices' = out.notices
              /\ result' = [kind |-> out.kind, records |-> out.records]
    /\ fn' = "get_mars_weather"
    /\ args' = <<>>
    /\ pc' = "done"
    /\ UNCHANGED shared

NextWeather == CallGetMarsWeather \/ Rerun

SpecWeather == Init /\ [][NextWeather]_vars

(***************************************************************************)
(* Properties of get_mars_weather.                                         *)
(***************************************************************************)
WeatherReturned == pc = "done" /\ fn = "get_mars_weather"

\* the body the weather request returned (when it returned one)
WeatherData == requests[1].response[1]

WeatherFetched == WeatherReturned /\ requests[1].response # None

\* a key that parses as a non-negative integer: one or more decimal digits
IsDayIndex(key) ==
    Len(key) > 0 /\ \A i \in 1..Len(key) : key[i] \in Range(DecimalChars)

DayIndexKeys(data) == SelectSeq(keys(data), IsDayIndex)

\* C1: for every weather payload, get_mars_weather returns exactly one record
\* for each top-level key that parses as a non-negative integer, with sol equal
\* to that integer, and no record for any other key; the other keys are
\* excluded silently and never make the call raise.
C1_OneRecordPerDayIndexKey ==
    WeatherFetched =>
        LET valid == DayIndexKeys(WeatherData)
            records == result.records
        IN  /\ result.kind # "ValueError"
            /\ Len(records) = Len(valid)
            /\ \A i \in 1..Len(valid) :
                  \E j \in 1..Len(records) : records[j].sol = DecimalValue(valid[i])
            /\ \A j \in 1..Len(records) :
                  \E i \in 1..Len(valid) : records[j].sol = DecimalValue(valid[i])

\* C2: whenever get_mars_weather returns a record collection, the records are
\* ordered by sol descending: each record's sol is greater than or equal to
\* the sol of the record after it, whatever the key order of the payload.
C2_SortedBySolDescending ==
    (WeatherReturned /\ result.kind = "DataFrame") =>
        \A i \in 1..(Len(result.records) - 1) :
            result.records[i].sol >= result.records[i + 1].sol

\* a payload whose two day keys come in ascending order was turned around
C2_Witness ==
    /\ WeatherFetched
    /\ result.kind = "DataFrame"
    /\ Len(WeatherData) = 2
    /\ IsDayIndex(WeatherData[1][1])
    /\ IsDayIndex(WeatherData[2][1])
    /\ DecimalValue(WeatherData[1][1]) < DecimalValue(WeatherData[2][1])
    /\ Len(result.records) = 2
    /\ result.records[1].sol = DecimalValue(WeatherData[2][1])
    /\ result.records[2].sol = DecimalValue(WeatherData[1][1])

\* C3: in every collection returned by one get_mars_weather call no two
\* records have the same sol, for every payload whose top-level keys are
\* distinct strings (keys that differ only by leading zeros included).
C3_NoTwoRecordsShareSol ==
    (WeatherReturned /\ result.kind = "DataFrame") =>
        \A i, j \in 1..Len(result.records) :
            result.records[i].sol = result.records[j].sol => i = j

\* C4: when the payload was fetched but contains no day-index key,
\* get_mars_weather returns None, never an empty collection; and whenever it
\* returns a collection, the collection holds at least one record.
C4_NoDayIndexKeyGivesNone ==
    /\ (WeatherFetched /\ DayIndexKeys(WeatherData) = <<>>) => result.kind = "None"
    /\ (WeatherReturned /\ result.kind = "DataFrame") => Len(result.records) >= 1

\* the payload with every day entry replaced by one that misses nothing
CompleteDays(data) == [i \in 1..Len(data) |-> <<data[i][1], FullDay>>]

\* the record the claim expects for day entry d under key
IsRecordOf(r, key, d) ==
    /\ r.sol = DecimalValue(key)
    /\ r.min_temp_c =
          IF "AT" \in DOMAIN d /\ "mn" \in DOMAIN d.AT THEN <<d.AT.mn>> ELSE None
    /\ r.max_temp_c =
          IF "AT" \in DOMAIN d /\ "mx" \in DOMAIN d.AT THEN <<d.AT.mx>> ELSE None
    /\ r.avg_temp_c =
          IF "AT" \in DOMAIN d /\ "av" \in DOMAIN d.AT THEN <<d.AT.av>> ELSE None
    /\ r.pressure_pa =
          IF "PRE" \in DOMAIN d /\ "av" \in DOMAIN d.PRE THEN <<d.PRE.av>> ELSE None
    /\ r.season = IF "Season" \in DOMAIN d THEN d.Season ELSE "Unknown"

\* C5: a missing AT, PRE, mn, mx or av yields an absent value for that
\* attribute only and a missing Season yields "Unknown"; the record is still
\* produced and the other entries are still returned: what the call ends in
\* (None, a collection, an exception) is what it ends in for the same keys
\* with nothing missing, and a returned collection holds one record per
\* selected key, each with the present values of its own day entry.
C5_MissingFieldsNeverAbort ==
    WeatherFetched =>
        LET data == WeatherData
            selected == sol_keys_of(data)
            records == result.records
        IN  /\ result.kind = get_mars_weather(Some(CompleteDays(data))).kind
            /\ result.kind = "DataFrame" =>
                  /\ Len(records) = Len(selected)
                  /\ \A i \in 1..Len(selected) :
                        \E j \in 1..Len(records) :
                            IsRecordOf(records[j], selected[i], item(data, selected[i]))

\* a collection with a record that lacks everything beside one that lacks nothing
C5_Witness ==
    /\ WeatherReturned
    /\ result.kind = "DataFrame"
    /\ \E i, j \in 1..Len(result.records) :
          /\ result.records[i].min_temp_c = None
          /\ result.records[i].pressure_pa = None
          /\ result.records[i].season = "Unknown"
          /\ result.records[j].min_temp_c # None
          /\ result.records[j].pressure_pa # None

(***************************************************************************)
(* _format_camera_name.  camera_map is the dict literal in the order it is *)
(* written, which is the order camera_map.items() yields it.                *)
(***************************************************************************)
camera_map ==
    <<
       \* NAV_LEFT: Navigation Camera - Left
       <<<<"N","A","V","_","L","E","F","T">>,
         <<"N","a","v","i","g","a","t","i","o","n"," ","C","a","m","e","r","a"," ","-"," ","L","e","f","t">>>>,
       \* NAV_RIGHT: Navigation Camera - Right
       <<<<"N","A","V","_","R","I","G","H","T">>,
         <<"N","a","v","i","g","a","t","i","o","n"," ","C","a","m","e","r","a"," ","-"," ","R","i","g","h","t">>>>,
       \* NAV_LEFT_B: Navigation Camera - Left B
       <<<<"N","A","V","_","L","E","F","T","_","B">>,
         <<"N","a","v","i","g","a","t","i","o","n"," ","C","a","m","e","r","a"," ","-"," ","L","e","f","t"," ","B">>>>,
       \* NAV_RIGHT_B: Navigation Camera - Right B
       <<<<"N","A","V","_","R","I","G","H","T","_","B">>,
         <<"N","a","v","i","g","a","t","i","o","n"," ","C","a","m","e","r","a"," ","-"," ","R","i","g","h","t"," ","B">>>>,
       \* FHAZ_LEFT: Front Hazard Avoidance Camera - Left
       <<<<"F","H","A","Z","_","L","E","F","T">>,
         <<"F","r","o","n","t"," ","H","a","z","a","r","d"," ","A","v","o","i","d","a","n","c","e"," ","C","a","m","e","r","a"," ","-"," ","L","e","f","t">>>>,
       \* FHAZ_RIGHT: Front Hazard Avoidance Camera - Right
       <<<<"F","H","A","Z","_","R","I","G","H","T">>,
         <<"F","r","o","n","t"," ","H","a","z","a","r","d"," ","A","v","o","i","d","a","n","c","e"," ","C","a","m","e","r","a"," ","-"," ","R","i","g","h","t">>>>,
       \* RHAZ_LEFT: Rear Hazard Avoidance Camera - Left
       <<<<"R","H","A","Z","_","L","E","F","T">>,
         <<"R","e","a","r"," ","H","a","z","a","r","d"," ","A","v","o","i","d","a","n","c","e"," ","C","a","m","e","r","a"," ","-"," ","L","e","f","t">>>>,
       \* RHAZ_RIGHT: Rear Hazard Avoidance Camera - Right
       <<<<"R","H","A","Z","_","R","I","G","H","T">>,
         <<"R","e","a","r"," ","H","a","z","a","r","d"," ","A","v","o","i","d","a","n","c","e"," ","C","a","m","e","r","a"," ","-"," ","R","i","g","h","t">>>>,
       \* MAST_LEFT: Mast Camera - Left
       <<<<"M","A","S","T","_","L","E","F","T">>,
         <<"M","a","s","t"," ","C","a","m","e","r","a"," ","-"," ","L","e","f","t">>>>,
       \* MAST_RIGHT: Mast Camera - Right
       <<<<"M","A","S","T","_","R","I","G","H","T">>,
         <<"M","a","s","t"," ","C","a","m","e","r","a"," ","-"," ","R","i","g","h","t">>>>,
       \* MAHLI: Mars Hand Lens Imager
       <<<<"M","A","H","L","I">>,
         <<"M","a","r","s"," ","H","a","n","d"," ","L","e","n","s"," ","I","m","a","g","e","r">>>>,
       \* MARDI: Mars Descent Imager
       <<<<"M","A","R","D","I">>,
         <<"M","a","r","s"," ","D","e","s","c","e","n","t"," ","I","m","a","g","e","r">>>>,
       \* CHEMCAM: Chemistry and Camera Complex
       <<<<"C","H","E","M","C","A","M">>,
         <<"C","h","e","m","i","s","t","r","y"," ","a","n","d"," ","C","a","m","e","r","a"," ","C","o","m","p","l","e","x">>>>
    >>

\* s.startswith(prefix)
startswith(s, prefix) ==
    Len(prefix) <= Len(s) /\ SubSeq(s, 1, Len(prefix)) = prefix

\* s.replace(old, new) for one-character old and new
replace(s, old, new) == [i \in 1..Len(s) |-> IF s[i] = old THEN new ELSE s[i]]

\* s.title(): a scan that remembers whether the previous character was cased
RECURSIVE TitleScan(_, _)
TitleScan(s, previous_is_cased) ==
    IF s = <<>> THEN <<>>
    ELSE LET c == Head(s)
             out == IF IsLowerChar(c)
                      THEN (IF previous_is_cased THEN c ELSE UpperChar(c))
                    ELSE IF IsUpperChar(c)
                      THEN (IF previous_is_cased THEN LowerChar(c) ELSE c)
                    ELSE c
         IN  <<out>> \o TitleScan(Tail(s), IsLowerChar(c) \/ IsUpperChar(c))

title(s) == TitleScan(s, FALSE)

\* instrument in camera_map
InCameraMap(instrument) == \E i \in 1..Len(camera_map) : camera_map[i][1] = instrument

\* camera_map[instrument]
CameraMapItem(instrument) ==
    camera_map[CHOOSE i \in 1..Len(camera_map) : camera_map[i][1] = instrument][2]

\* the loop over camera_map.items() from entry i on: the value it returns, or None
RECURSIVE PartialMatchFrom(_, _)
PartialMatchFrom(instrument, i) ==
    IF i > Len(camera_map) THEN None
    ELSE IF startswith(instrument, camera_map[i][1]) THEN Some(camera_map[i][2])
    ELSE PartialMatchFrom(instrument, i + 1)

\* the same loop run over the entries from the last one back
RECURSIVE PartialMatchBackFrom(_, _)
PartialMatchBackFrom(instrument, i) ==
    IF i < 1 THEN None
    ELSE IF startswith(instrument, camera_map[i][1]) THEN Some(camera_map[i][2])
    ELSE PartialMatchBackFrom(instrument, i - 1)

partial_match_last(instrument) == PartialMatchBackFrom(instrument, Len(camera_map))

partial_match(instrument) == PartialMatchFrom(instrument, 1)

_format_camera_name(instrument) ==
    IF InCameraMap(instrument) THEN CameraMapItem(instrument)
    ELSE IF partial_match(instrument) # None THEN partial_match(instrument)[1]
    ELSE title(replace(instrument, "_", " "))

\* instrument codes: a base, then up to MaxSuffixLen more characters
BaseCodes ==
    {camera_map[i][1] : i \in 1..Len(camera_map)}
    \cup { <<>>, <<"X","Y","Z">>, <<"X","Y","Z","_","F","O","O">>,
           <<"M","A","S","T">>, <<"n","a","v">>, <<"U","n","k","n","o","w","n">> }

SuffixChars == {"_", "B", "x", "1", "F"}

InstrumentCodes ==
    {base \o suffix : base \in BaseCodes, suffix \in SeqsUpTo(SuffixChars, MaxSuffixLen)}

CallFormatCameraName ==
    /\ pc = "idle"
    /\ \E instrument \in InstrumentCodes :
          /\ args' = <<instrument>>
          /\ result' = _format_camera_name(instrument)
    /\ fn' = "_format_camera_name"
    /\ requests' = <<>>
    /\ notices' = <<>>
    /\ pc' = "done"
    /\ UNCHANGED shared

NextCamera == CallFormatCameraName \/ Rerun

SpecCamera == Init /\ [][NextCamera]_vars

(***************************************************************************)
(* Properties of _format_camera_name.                                      *)
(***************************************************************************)
CameraReturned == pc = "done" /\ fn = "_format_camera_name"

IsLetter(c) == c \in Range(UpperChars) \cup Range(LowerChars)

\* the table entries whose key is a prefix of the code
PrefixEntries(code) ==
    {i \in 1..Len(camera_map) :
        /\ Len(camera_map[i][1]) <= Len(code)
        /\ \A k \in 1..Len(camera_map[i][1]) : camera_map[i][1][k] = code[k]}

\* underscores replaced by spaces and title-cased: a letter is upper case
\* exactly when no letter stands before it
TitleCased(code) ==
    [i \in 1..Len(code) |->
        IF code[i] = "_" THEN " "
        ELSE IF ~IsLetter(code[i]) THEN code[i]
        ELSE IF i = 1 \/ ~IsLetter(code[i - 1])
             THEN (IF code[i] \in Range(LowerChars)
                   THEN UpperChars[IndexIn(LowerChars, code[i])] ELSE code[i])
             ELSE (IF code[i] \in Range(UpperChars)
                   THEN LowerChars[IndexIn(UpperChars, code[i])] ELSE code[i])]

\* C10: _format_camera_name applies three rules in strict order: (a) a code
\* that is a key of the table returns that key's label; (b) otherwise the
\* label of the first table entry, in table order, whose key is a prefix of
\* the code; (c) otherwise the code with underscores replaced by spaces and
\* title-cased.  It returns a label for every code.
C10_ExactThenFirstPrefixThenTitle ==
    CameraReturned =>
        LET code == args[1]
            exact == {i \in 1..Len(camera_map) : camera_map[i][1] = code}
            prefix == PrefixEntries(code)
        IN  /\ exact # {} => \A i \in exact : result = camera_map[i][2]
            /\ (exact = {} /\ prefix # {}) =>
                  \E i \in prefix :
                      /\ \A j \in prefix : i <= j
                      /\ result = camera_map[i][2]
            /\ (exact = {} /\ prefix = {}) => result = TitleCased(code)
            /\ code = <<"M","A","S","T","_","L","E","F","T">> =>
                  result = <<"M","a","s","t"," ","C","a","m","e","r","a"," ","-"," ","L","e","f","t">>
            /\ code = <<"M","A","S","T","_","L","E","F","T","_","B">> =>
                  result = <<"M","a","s","t"," ","C","a","m","e","r","a"," ","-"," ","L","e","f","t">>
            /\ code = <<"X","Y","Z","_","F","O","O">> =>
                  result = <<"X","y","z"," ","F","o","o">>
            /\ DOMAIN result = 1..Len(result)

\* a code that is no key and has two keys as prefixes: NAV_LEFT_Bx got the
\* label of NAV_LEFT, which stands before NAV_LEFT_B in the table
C10_Witness ==
    /\ CameraReturned
    /\ args[1] = <<"N","A","V","_","L","E","F","T","_","B","x">>
    /\ Cardinality(PrefixEntries(args[1])) = 2
    /\ result = camera_map[1][2]

\* a code no key is a prefix of came back title-cased
C10_FallbackReached ==
    /\ CameraReturned
    /\ args[1] = <<"n","a","v","_","x">>
    /\ result = <<"N","a","v"," ","X">>

(***************************************************************************)
(* get_rover_photos.  A URL is its template and the sol formatted into it. *)
(***************************************************************************)
MSL_MANIFEST_URL ==
    [template |-> "https://mars.nasa.gov/msl-raw-images/image/image_manifest.json",
     sol |-> None]

MSL_SOL_IMAGES_URL(sol) ==
    [template |-> "https://mars.nasa.gov/msl-raw-images/image/images_sol{sol}.json",
     sol |-> Some(sol)]

Curiosity == <<"c","u","r","i","o","s","i","t","y">>

RoverNames ==
    { Curiosity,
      <<"C","u","r","i","o","s","i","t","y">>,
      <<"p","e","r","s","e","v","e","r","a","n","c","e">>,
      <<"S","p","i","r","i","t">> }

\* the keys of config.ROVER_CAMERAS
ROVER_CAMERAS_keys ==
    { Curiosity,
      <<"p","e","r","s","e","v","e","r","a","n","c","e">>,
      <<"o","p","p","o","r","t","u","n","i","t","y">>,
      <<"s","p","i","r","i","t">> }

\* the gate tested against the camera table instead of the one supported name
unsupported_by_camera_table(rover_name) == rover_name \notin ROVER_CAMERAS_keys

\* rover_name != "curiosity", on the lower-cased name
unsupported(rover_name) == rover_name # Curiosity

\* the manifest's day list: {sol, num_images}, num_images possibly missing
ManifestSols == {0, 1}

ManifestEntries ==
    {[sol |-> x, num_images |-> k] : x \in ManifestSols, k \in {0, 3}}
    \cup {[sol |-> x] : x \in ManifestSols}

ManifestBodies ==
    { EmptyDict, [latest_sol |-> 1] }
    \cup {[sols |-> list] : list \in SeqsUpTo(ManifestEntries, MaxSols)}

ManifestResponses == {None} \cup {Some(body) : body \in ManifestBodies}

\* the per-day image list
ImageA ==
    [itemName |-> "img_A",
     urlList |-> "https://mars.nasa.gov/msl-raw-images/A.jpg",
     utc |-> <<"2","0","2","5","-","0","1","-","0","2","T","0","3",":","0","4","Z">>,
     instrument |-> <<"M","A","S","T","_","L","E","F","T">>,
     sol |-> 7]

ImageB ==
    [itemName |-> "img_B",
     urlList |-> "",
     utc |-> <<"2","0","2","5","-","0","1","-","0","3">>,
     instrument |-> <<"N","A","V","_","R","I","G","H","T","_","B">>]

ImageEntries == { ImageA, ImageB, EmptyDict }

SolBodies ==
    { EmptyDict, [total |-> 0] }
    \cup {[images |-> list] : list \in SeqsUpTo(ImageEntries, MaxImages)}

SolResponses == {None} \cup {Some(body) : body \in SolBodies}

\* the scan of reversed(sols) from entry i back: Some(sol) at the first entry
\* with num_images > 0, or None when the loop runs out
RECURSIVE ScanReversed(_, _)
ScanReversed(sols, i) ==
    IF i < 1 THEN None
    ELSE IF GetOr(sols[i], "num_images", 0) > 0 THEN Some(sols[i].sol)
    ELSE ScanReversed(sols, i - 1)

\* the same scan run over sols from the first entry on
RECURSIVE ScanForward(_, _)
ScanForward(sols, i) ==
    IF i > Len(sols) THEN None
    ELSE IF GetOr(sols[i], "num_images", 0) > 0 THEN Some(sols[i].sol)
    ELSE ScanForward(sols, i + 1)

latest_sol_scanning_forward(sols) == ScanForward(sols, 1)

latest_sol_of(sols) == ScanReversed(sols, Len(sols))

\* the list's last n entries
slice_last(list, n) ==
    SubSeq(list, IF n >= Len(list) THEN 1 ELSE Len(list) - n + 1, Len(list))

\* list[:n]
slice(list, n) ==
    IF n >= 0
    THEN SubSeq(list, 1, IF n < Len(list) THEN n ELSE Len(list))
    ELSE SubSeq(list, 1, IF Len(list) + n > 0 THEN Len(list) + n ELSE 0)

\* s.split(sep)[0]
RECURSIVE split_first(_, _)
split_first(s, sep) ==
    IF s = <<>> \/ Head(s) = sep THEN <<>>
    ELSE <<Head(s)>> \o split_first(Tail(s), sep)

\* the loop body taking the date with rsplit('T', 1): cut at the last separator
photo_record_cut_at_last_separator(img, latest_sol) ==
    LET utc_timestamp == GetOr(img, "utc", <<>>)
        instrument == GetOr(img, "instrument", <<"U","n","k","n","o","w","n">>)
        last_separator == CHOOSE j \in DOMAIN utc_timestamp :
                              /\ utc_timestamp[j] = "T"
                              /\ \A k \in DOMAIN utc_timestamp :
                                    k > j => utc_timestamp[k] # "T"
    IN  [id |-> GetOr(img, "itemName", "unknown"),
         img_src |-> GetOr(img, "urlList", ""),
         camera_name |-> _format_camera_name(instrument),
         camera_abbr |-> instrument,
         sol |-> GetOr(img, "sol", latest_sol),
         earth_date |-> IF "T" \in Range(utc_timestamp)
                        THEN SubSeq(utc_timestamp, 1, last_separator - 1)
                        ELSE utc_timestamp,
         rover |-> "Curiosity"]

\* the loop body stamping every record with the sol of the request
photo_record_with_requested_sol(img, latest_sol) ==
    LET utc_timestamp == GetOr(img, "utc", <<>>)
        instrument == GetOr(img, "instrument", <<"U","n","k","n","o","w","n">>)
    IN  [id |-> GetOr(img, "itemName", "unknown"),
         img_src |-> GetOr(img, "urlList", ""),
         camera_name |-> _format_camera_name(instrument),
         camera_abbr |-> instrument,
         sol |-> latest_sol,
         earth_date |-> IF "T" \in Range(utc_timestamp)
                        THEN split_first(utc_timestamp, "T")
                        ELSE utc_timestamp,
         rover |-> "Curiosity"]

\* one iteration of the loop over images: the dict appended for img.  The
\* payload's sol is a JSON number, so int() of it is the number itself.
photo_record(img, latest_sol) ==
    LET utc_timestamp == GetOr(img, "utc", <<>>)
        instrument == GetOr(img, "instrument", <<"U","n","k","n","o","w","n">>)
    IN  [id |-> GetOr(img, "itemName", "unknown"),
         img_src |-> GetOr(img, "urlList", ""),
         camera_name |-> _format_camera_name(instrument),
         camera_abbr |-> instrument,
         sol |-> GetOr(img, "sol", latest_sol),
         earth_date |-> IF "T" \in Range(utc_timestamp)
                        THEN split_first(utc_timestamp, "T")
                        ELSE utc_timestamp,
         rover |-> "Curiosity"]

\* the method from the check of sol_data on, without the check for no images
photos_from_sol_data_unchecked(sol_response, num_photos, latest_sol) ==
    IF \/ sol_response = None
       \/ DOMAIN sol_response[1] = {}
       \/ "images" \notin DOMAIN sol_response[1]
    THEN [value |-> None, notices |-> <<"error: Could not retrieve images for Sol">>]
    ELSE
      LET images == slice(sol_response[1].images, num_photos)
      IN  [value |-> Some([i \in 1..Len(images) |-> photo_record(images[i], latest_sol)]),
           notices |-> <<>>]

\* the method from the check of sol_data on
photos_from_sol_data(sol_response, num_photos, latest_sol) ==
    IF \/ sol_response = None
       \/ DOMAIN sol_response[1] = {}
       \/ "images" \notin DOMAIN sol_response[1]
    THEN [value |-> None, notices |-> <<"error: Could not retrieve images for Sol">>]
    ELSE
      LET images == slice(sol_response[1].images, num_photos)
      IN  IF images = <<>>
          THEN [value |-> None, notices |-> <<"warning: No images found for Sol">>]
          ELSE [value |-> Some([i \in 1..Len(images) |->
                                    photo_record(images[i], latest_sol)]),
                notices |-> <<>>]

(***************************************************************************)
(* get_rover_photos, given what its _make_request calls return: value is   *)
(* None or Some(list of photo dicts), requests the calls it made.          *)
(***************************************************************************)
get_rover_photos(rover_name_arg, num_photos, manifest_response, sol_response) ==
    LET rover_name == lower(rover_name_arg)
        manifest_request == [url |-> MSL_MANIFEST_URL, response |-> manifest_response]
    IN
    IF unsupported(rover_name)
    THEN [value |-> None, requests |-> <<>>,
          notices |-> <<"warning: rover is not currently available">>]
    ELSE IF manifest_response = None \/ DOMAIN manifest_response[1] = {}
    THEN [value |-> None, requests |-> <<manifest_request>>,
          notices |-> <<"error: Could not retrieve Curiosity rover manifest">>]
    ELSE
      LET sols == GetOr(manifest_response[1], "sols", <<>>)
      IN  IF sols = <<>>
          THEN [value |-> None, requests |-> <<manifest_request>>,
                notices |-> <<"warning: No image data available in manifest">>]
          ELSE IF latest_sol_of(sols) = None
          THEN [value |-> None, requests |-> <<manifest_request>>,
                notices |-> <<"warning: No recent photos found for Curiosity">>]
          ELSE
            LET latest_sol == latest_sol_of(sols)[1]
                sol_request == [url |-> MSL_SOL_IMAGES_URL(latest_sol),
                                response |-> sol_response]
                out == photos_from_sol_data(sol_response, num_photos, latest_sol)
            IN  [value |-> out.value,
                 requests |-> <<manifest_request, sol_request>>,
                 notices |-> out.notices]

\* num_photos is an int: the counts asked for, and a negative one
PhotoCounts == -1..MaxPhotos

\* the bodies the environment returns are drawn for the requests the call makes
CallGetRoverPhotos ==
    /\ pc = "idle"
    /\ \E rover_name \in RoverNames, num_photos \in PhotoCounts :
        \E manifest_response \in
              IF get_rover_photos(rover_name, num_photos, None, None).requests = <<>>
              THEN {None} ELSE ManifestResponses :
          \E sol_response \in
                IF Len(get_rover_photos(rover_name, num_photos,
                                        manifest_response, None).requests) < 2
                THEN {None} ELSE SolResponses :
            LET out == get_rover_photos(rover_name, num_photos,
                                        manifest_response, sol_response)
            IN  /\ args' = <<rover_name, num_photos>>
                /\ requests' = out.requests
                /\ notices' = out.notices
                /\ result' = out.value
    /\ fn' = "get_rover_photos"
    /\ pc' = "done"
    /\ UNCHANGED shared

NextPhotos == CallGetRoverPhotos \/ Rerun

SpecPhotos == Init /\ [][NextPhotos]_vars

(***************************************************************************)
(* Properties of get_rover_photos.                                         *)
(***************************************************************************)
PhotosReturned == pc = "done" /\ fn = "get_rover_photos"

\* the "unsupported rover" outcome: None with the warning, no request made
UnsupportedOutcome ==
    /\ result = None
    /\ notices = <<"warning: rover is not currently available">>
    /\ requests = <<>>

\* C6 as stated: get_rover_photos called with a rover name not equal to the
\* single supported value returns the "unsupported rover" outcome and performs
\* no HTTP request at all.
C6_NotEqualNameIsUnsupported ==
    (PhotosReturned /\ args[1] # <<"c","u","r","i","o","s","i","t","y">>) => UnsupportedOutcome

\* C6 as amended: get_rover_photos called with a rover name whose lower-cased
\* form is not equal to the single supported value returns the "unsupported
\* rover" outcome and performs no HTTP request at all; a name that differs
\* from it only by case passes the gate.
C6_OtherRoverIsUnsupported ==
    PhotosReturned =>
        LET folded == [i \in 1..Len(args[1]) |->
                          IF args[1][i] \in Range(UpperChars)
                          THEN LowerChars[IndexIn(UpperChars, args[1][i])]
                          ELSE args[1][i]]
        IN  IF folded # <<"c","u","r","i","o","s","i","t","y">>
            THEN UnsupportedOutcome
            ELSE /\ Len(requests) >= 1
                 /\ requests[1].url = MSL_MANIFEST_URL

\* another rover was asked for and nothing was requested
C6_Witness ==
    /\ PhotosReturned
    /\ args[1] = <<"p","e","r","s","e","v","e","r","a","n","c","e">>
    /\ UnsupportedOutcome

\* the manifest request returned a body that is not empty
ManifestFetched ==
    /\ PhotosReturned
    /\ Len(requests) >= 1
    /\ requests[1].response # None
    /\ DOMAIN requests[1].response[1] # {}

\* the manifest's day list ([] when it has none)
ManifestDayList ==
    IF "sols" \in DOMAIN requests[1].response[1]
    THEN requests[1].response[1].sols
    ELSE <<>>

\* the entries of a day list whose num_images is greater than zero
Qualifying(list) ==
    {i \in 1..Len(list) : "num_images" \in DOMAIN list[i] /\ list[i].num_images > 0}

\* C7: get_rover_photos selects the sol of the last entry, in list order,
\* whose num_images is greater than zero (an entry without num_images counts
\* as zero); if the list is empty or no entry qualifies it signals "no data"
\* and issues no per-day image request.
C7_LastPopulatedSolSelected ==
    ManifestFetched =>
        LET q == Qualifying(ManifestDayList)
        IN  IF q = {}
            THEN result = None /\ Len(requests) = 1
            ELSE /\ Len(requests) = 2
                 /\ \E i \in q :
                       /\ \A j \in q : j <= i
                       /\ requests[2].url = MSL_SOL_IMAGES_URL(ManifestDayList[i].sol)

\* the last entry has no images, the one before it has: the earlier sol is fetched
C7_Witness ==
    /\ ManifestFetched
    /\ Len(ManifestDayList) = 2
    /\ Qualifying(ManifestDayList) = {1}
    /\ ManifestDayList[1].sol # ManifestDayList[2].sol
    /\ Len(requests) = 2
    /\ requests[2].url.sol = Some(ManifestDayList[1].sol)

\* the per-day request returned a body with an images collection
ImagesFetched ==
    /\ PhotosReturned
    /\ Len(requests) = 2
    /\ requests[2].response # None
    /\ "images" \in DOMAIN requests[2].response[1]

UpstreamImages == requests[2].response[1].images

\* the photo dict stands for the image entry
IsPhotoOf(photo, img) ==
    /\ photo.id = IF "itemName" \in DOMAIN img THEN img.itemName ELSE "unknown"
    /\ photo.img_src = IF "urlList" \in DOMAIN img THEN img.urlList ELSE ""
    /\ photo.camera_abbr =
          IF "instrument" \in DOMAIN img THEN img.instrument
          ELSE <<"U","n","k","n","o","w","n">>

\* the records stand, position by position, for the first entries upstream
IsPrefixOfUpstream ==
    /\ Len(result[1]) <= Len(UpstreamImages)
    /\ \A i \in 1..Len(result[1]) : IsPhotoOf(result[1][i], UpstreamImages[i])

C9_NoneOrNonEmptyList ==
    /\ PhotosReturned => (result = None \/ Len(result[1]) >= 1)
    /\ (/\ PhotosReturned
        /\ Len(requests) = 2
        /\ \/ requests[2].response = None
           \/ "images" \notin DOMAIN requests[2].response[1]
           \/ requests[2].response[1].images = <<>>) => result = None

\* the per-day payload came back with an empty images collection
C9_Witness ==
    /\ ImagesFetched
    /\ UpstreamImages = <<>>
    /\ args[2] >= 1
    /\ result = None
    /\ notices = <<"warning: No images found for Sol">>

(***************************************************************************)
(* config.get_nasa_api_key.  The credential sources are                    *)
(*   has_streamlit  HAS_STREAMLIT and hasattr(st, 'secrets')               *)
(*   secrets        None: there is no secrets file (FileNotFoundError);    *)
(*                  Some(d): the entries of the secrets file               *)
(*   env            os.environ                                             *)
(* The outcome is the key (kind "str") or the ValueError that is raised.   *)
(***************************************************************************)
\* st.secrets["NASA_API_KEY"]
secrets_lookup(env) ==
    IF ~env.has_streamlit THEN [kind |-> "skipped", value |-> ""]
    ELSE IF env.secrets = None THEN [kind |-> "FileNotFoundError", value |-> ""]
    ELSE IF "NASA_API_KEY" \notin DOMAIN env.secrets[1]
    THEN [kind |-> "KeyError", value |-> ""]
    ELSE [kind |-> "str", value |-> env.secrets[1]["NASA_API_KEY"]]

\* os.getenv("NASA_API_KEY")
getenv(env, name) == Get(env.env, name)

\* the lookup with the environment consulted before the secret store
get_nasa_api_key_env_first(env) ==
    LET api_key == getenv(env, "NASA_API_KEY")
    IN  IF api_key # None /\ api_key[1] # ""
        THEN [kind |-> "str", value |-> api_key[1]]
        ELSE IF secrets_lookup(env).kind = "str"
        THEN [kind |-> "str", value |-> secrets_lookup(env).value]
        ELSE [kind |-> "ValueError", value |-> "NASA API key not found"]

get_nasa_api_key(env) ==
    IF secrets_lookup(env).kind = "str"
    THEN [kind |-> "str", value |-> secrets_lookup(env).value]
    ELSE LET api_key == getenv(env, "NASA_API_KEY")
         IN  IF api_key # None /\ api_key[1] # ""
             THEN [kind |-> "str", value |-> api_key[1]]
             ELSE [kind |-> "ValueError", value |-> "NASA API key not found"]

(***************************************************************************)
(* NASAClient.__init__ and NASAClient._make_request.                       *)
(*                                                                         *)
(* What the network does with one GET is an outcome chosen by the          *)
(* environment:                                                            *)
(*   [kind |-> "raise", exc |-> e]     session.get raised e                *)
(*   [kind |-> "response", status |-> n, json |-> j]                       *)
(*        a response arrived; j is Some(body) when its text is JSON, and   *)
(*        None when response.json() raises                                 *)
(* An exception is its class name and the classes it is an instance of.    *)
(***************************************************************************)
Exc(class, bases) == [class |-> class, bases |-> bases \cup {class, "Exception"}]

\* the exceptions of requests.exceptions that session.get raises
TransportErrors ==
    { Exc("Timeout", {"RequestException"}),
      Exc("ReadTimeout", {"Timeout", "RequestException"}),
      Exc("ConnectTimeout", {"ConnectionError", "Timeout", "RequestException"}),
      Exc("ConnectionError", {"RequestException"}),
      Exc("SSLError", {"ConnectionError", "RequestException"}),
      Exc("TooManyRedirects", {"RequestException"}) }

\* what response.json() raises on a body that is not JSON: requests from
\* 2.27 on raises its own JSONDecodeError, older versions the json module's
JsonErrors ==
    { Exc("requests.JSONDecodeError",
          {"InvalidJSONError", "RequestException", "ValueError"}),
      Exc("json.JSONDecodeError", {"ValueError"}) }

HTTPError(status) == [class |-> "HTTPError", status |-> status,
                      bases |-> {"HTTPError", "RequestException", "Exception"}]

HttpStatuses == {200, 400, 401, 404, 429, 500, 503}

\* response.raise_for_status()
raises_for_status(status) == 400 <= status /\ status < 600

\* requests merges the session's params with the call's; the call's win
merge_params(session_params, params) ==
    IF params = None THEN session_params
    ELSE [k \in DOMAIN session_params \cup DOMAIN params[1] |->
            IF k \in DOMAIN params[1] THEN params[1][k] ELSE session_params[k]]

\* self.session.params, set in __init__ from the resolved key
session_params == [api_key |-> get_nasa_api_key(environ).value]

\* the GET that self.session.get(url, params=params, timeout=timeout) sends
session_get(url, params, timeout) ==
    [via |-> "session", url |-> url,
     params |-> merge_params(session_params, params), timeout |-> timeout]

\* the exception the try block of _make_request ends with, if any
raised_in_try(outcome) ==
    IF outcome.kind = "raise" THEN Some(outcome.exc)
    ELSE IF raises_for_status(outcome.status) THEN Some(HTTPError(outcome.status))
    ELSE IF outcome.json = None THEN Some(outcome.json_error)
    ELSE None

TimeoutNotice == "error: Request timeout - NASA servers might be slow"
RateLimitNotice == "error: Rate limit exceeded"
HttpErrorNotice(status) == "error: HTTP Error " \o ToString(status)
NetworkErrorNotice == "error: Network error"

\* the except clauses of _make_request, with the timeout clause after the
\* generic one
except_clauses_generic_first(e) ==
    IF "RequestException" \in e.bases
    THEN [value |-> None, raised |-> None, notices |-> <<NetworkErrorNotice>>]
    ELSE [value |-> None, raised |-> Some(e), notices |-> <<>>]

\* the except clauses of _make_request, tried in order
except_clauses(e) ==
    IF "Timeout" \in e.bases
    THEN [value |-> None, raised |-> None, notices |-> <<TimeoutNotice>>]
    ELSE IF "HTTPError" \in e.bases
    THEN [value |-> None, raised |-> None,
          notices |-> IF e.status = 429 THEN <<RateLimitNotice>>
                      ELSE <<HttpErrorNotice(e.status)>>]
    ELSE IF "RequestException" \in e.bases
    THEN [value |-> None, raised |-> None, notices |-> <<NetworkErrorNotice>>]
    ELSE [value |-> None, raised |-> Some(e), notices |-> <<>>]

\* _make_request trying a second time when the first GET fails
make_request_with_retry(url, params, outcome) ==
    LET e == raised_in_try(outcome)
        handled == IF e = None
                   THEN [value |-> outcome.json, raised |-> None, notices |-> <<>>]
                   ELSE except_clauses(e[1])
        sent == [get |-> session_get(url, params, 10), outcome |-> outcome]
    IN  [value |-> handled.value,
         raised |-> handled.raised,
         notices |-> handled.notices,
         gets |-> IF e = None THEN <<sent>> ELSE <<sent, sent>>]

\* _make_request: value is the parsed body or None, raised the exception
\* that no clause caught, gets the GETs that were sent
_make_request(url, params, outcome) ==
    LET e == raised_in_try(outcome)
        handled == IF e = None
                   THEN [value |-> outcome.json, raised |-> None, notices |-> <<>>]
                   ELSE except_clauses(e[1])
    IN  [value |-> handled.value,
         raised |-> handled.raised,
         notices |-> handled.notices,
         gets |-> <<[get |-> session_get(url, params, 10), outcome |-> outcome]>>]

(***************************************************************************)
(* The methods over the network: the body of each decorated method, given  *)
(* the outcome of every GET it sends.  The result is                       *)
(*   [kind |-> "return", value |-> v]   or   [kind |-> "raise", exc |-> e] *)
(***************************************************************************)
Return(v) == [kind |-> "return", value |-> v]
Raise(e) == [kind |-> "raise", exc |-> e]

\* params = {"feedtype": "json", "ver": "1.0"}
weather_params == [feedtype |-> "json", ver |-> "1.0"]

\* int(sol) on a key that is no decimal numeral
IntValueError == Exc("ValueError", {})

uncached_get_mars_weather(outcome) ==
    LET r == _make_request(MARS_WEATHER_ENDPOINT, Some(weather_params), outcome)
        out == get_mars_weather(r.value)
    IN  IF r.raised # None
        THEN [result |-> Raise(r.raised[1]), notices |-> r.notices, gets |-> r.gets]
        ELSE IF out.kind = "ValueError"
        THEN [result |-> Raise(IntValueError), notices |-> r.notices, gets |-> r.gets]
        ELSE [result |-> Return([kind |-> out.kind, records |-> out.records]),
              notices |-> r.notices \o out.notices, gets |-> r.gets]

\* outcome1 answers the manifest request and outcome2 the per-day request,
\* when the method gets that far
uncached_get_rover_photos(rover_name, num_photos, outcome1, outcome2) ==
    LET r1 == _make_request(MSL_MANIFEST_URL, None, outcome1)
        first == get_rover_photos(rover_name, num_photos, r1.value, None)
    IN  IF first.requests = <<>>
        THEN [result |-> Return(first.value), notices |-> first.notices, gets |-> <<>>]
        ELSE IF r1.raised # None
        THEN [result |-> Raise(r1.raised[1]), notices |-> r1.notices, gets |-> r1.gets]
        ELSE IF Len(first.requests) = 1
        THEN [result |-> Return(first.value),
              notices |-> r1.notices \o first.notices, gets |-> r1.gets]
        ELSE
          LET r2 == _make_request(first.requests[2].url, None, outcome2)
              out == get_rover_photos(rover_name, num_photos, r1.value, r2.value)
          IN  IF r2.raised # None
              THEN [result |-> Raise(r2.raised[1]),
                    notices |-> r1.notices \o r2.notices,
                    gets |-> r1.gets \o r2.gets]
              ELSE [result |-> Return(out.value),
                    notices |-> r1.notices \o r2.notices \o out.notices,
                    gets |-> r1.gets \o r2.gets]

\* load_image_from_url sending its GET through the client's session
session_get_image(url, timeout) == session_get(url, None, timeout)

\* requests.get(url, timeout=10): no session, no params
plain_get(url, timeout) ==
    [via |-> "requests", url |-> url, params |-> EmptyDict, timeout |-> timeout]

\* the outcome of the image GET carries image: Some(img) when the content
\* decodes, None when Image.open raises
uncached_load_image_from_url(url, outcome) ==
    LET ok == /\ outcome.kind = "response"
              /\ ~raises_for_status(outcome.status)
              /\ outcome.image # None
    IN  [result |-> Return(IF ok THEN outcome.image ELSE None),
         notices |-> IF ok THEN <<>> ELSE <<"warning: Could not load image">>,
         gets |-> <<[get |-> plain_get(url, 10), outcome |-> outcome]>>]

(***************************************************************************)
(* What the network may answer.                                            *)
(***************************************************************************)
RaisedOutcomes == {[kind |-> "raise", exc |-> e] : e \in TransportErrors}

\* a response whose status raise_for_status rejects
ErrorResponses ==
    {[kind |-> "response", status |-> st, json |-> None, json_error |-> None] :
        st \in {x \in HttpStatuses : raises_for_status(x)}}

\* a response whose text is not JSON
BadJsonResponses ==
    {[kind |-> "response", status |-> 200, json |-> None, json_error |-> e] :
        e \in JsonErrors}

JsonResponses(bodies) ==
    {[kind |-> "response", status |-> 200, json |-> Some(b), json_error |-> None] :
        b \in bodies}

GetOutcomes(bodies) ==
    RaisedOutcomes \cup ErrorResponses \cup BadJsonResponses \cup JsonResponses(bodies)

\* weather bodies: empty, metadata only, one day, two days, a key that is a
\* digit but no decimal numeral
SampleWeatherBodies ==
    { <<>>,
      << <<<<"s","o","l","_","k","e","y","s">>, EmptyDict>> >>,
      << <<<<"1">>, FullDay>> >>,
      << <<<<"0">>, EmptyDict>>, <<<<"1","2">>, FullDay>> >>,
      << <<<<"sup2">>, FullDay>> >> }

SampleManifestBodies ==
    { EmptyDict,
      [sols |-> <<>>],
      [sols |-> <<[sol |-> 0, num_images |-> 0]>>],
      [sols |-> <<[sol |-> 0, num_images |-> 3], [sol |-> 1, num_images |-> 0]>>],
      [sols |-> <<[sol |-> 0, num_images |-> 3], [sol |-> 1, num_images |-> 3]>>] }

SampleSolBodies ==
    { EmptyDict,
      [images |-> <<>>],
      [images |-> <<ImageA>>],
      [images |-> <<ImageB, ImageA>>] }

\* the image GET: an exception, an error status, content that is no image,
\* or an image
ImageOutcomes ==
    RaisedOutcomes
    \cup {[kind |-> "response", status |-> st, image |-> None] :
            st \in {x \in HttpStatuses : raises_for_status(x)}}
    \cup {[kind |-> "response", status |-> 200, image |-> i] :
            i \in {None, Some("image A"), Some("image B")}}

ImageUrls == { ImageA.urlList, ImageB.urlList,
               "https://mars.nasa.gov/msl-raw-images/C.jpg" }

\* the credential sources the client was constructed under
KeyValues == {"KEY_A", "KEY_B", "DEMO_KEY"}

ClientEnvironments ==
    { [has_streamlit |-> TRUE, secrets |-> Some([NASA_API_KEY |-> "KEY_A"]),
       env |-> ("NASA_API_KEY" :> "KEY_B")],
      [has_streamlit |-> TRUE, secrets |-> None,
       env |-> ("NASA_API_KEY" :> "KEY_B")],
      [has_streamlit |-> FALSE, secrets |-> None,
       env |-> ("NASA_API_KEY" :> "DEMO_KEY")] }

GatewayUrls ==
    { MARS_WEATHER_ENDPOINT, MSL_MANIFEST_URL,
      MSL_SOL_IMAGES_URL(0), MSL_SOL_IMAGES_URL(1) }

\* num_photos as main() passes it, and a smaller count
DEFAULT_NUM_PHOTOS == 5

GatewayPhotoCounts == {1, DEFAULT_NUM_PHOTOS}

(***************************************************************************)
(* The client's methods called without the cache in front of them.         *)
(***************************************************************************)
InitGateway ==
    /\ pc = "idle"
    /\ fn = "none"
    /\ args = <<>>
    /\ requests = <<>>
    /\ notices = <<>>
    /\ result = None
    /\ cache = <<>>
    /\ clock = 0
    /\ sessions = <<>>
    /\ environ \in ClientEnvironments
    /\ view = <<>>

Returned(out, name, arguments) ==
    /\ fn' = name
    /\ args' = arguments
    /\ requests' = out.gets
    /\ notices' = out.notices
    /\ result' = out.result
    /\ pc' = "done"

CallMakeRequest ==
    /\ pc = "idle"
    /\ \E url \in GatewayUrls, params \in {None, Some(weather_params)},
          outcome \in GetOutcomes(SampleManifestBodies) :
          LET r == _make_request(url, params, outcome)
              out == [gets |-> r.gets, notices |-> r.notices,
                      result |-> IF r.raised # None THEN Raise(r.raised[1])
                                 ELSE Return(r.value)]
          IN  Returned(out, "_make_request", <<url, params>>)
    /\ UNCHANGED shared

HttpGetMarsWeather ==
    /\ pc = "idle"
    /\ \E outcome \in GetOutcomes(SampleWeatherBodies) :
          Returned(uncached_get_mars_weather(outcome), "get_mars_weather", <<>>)
    /\ UNCHANGED shared

\* the outcome of a GET is drawn only when the method sends it
HttpGetRoverPhotos ==
    /\ pc = "idle"
    /\ \E rover_name \in RoverNames, num_photos \in GatewayPhotoCounts :
        LET nothing == [kind |-> "raise", exc |-> Exc("ConnectionError", {"RequestException"})]
            sent(o1, o2) == Len(uncached_get_rover_photos(rover_name, num_photos, o1, o2).gets)
        IN
        \E outcome1 \in IF sent(nothing, nothing) = 0 THEN {nothing}
                        ELSE GetOutcomes(SampleManifestBodies) :
          \E outcome2 \in IF sent(outcome1, nothing) < 2 THEN {nothing}
                          ELSE GetOutcomes(SampleSolBodies) :
            Returned(uncached_get_rover_photos(rover_name, num_photos, outcome1, outcome2),
                     "get_rover_photos", <<rover_name, num_photos>>)
    /\ UNCHANGED shared

HttpLoadImageFromUrl ==
    /\ pc = "idle"
    /\ \E url \in ImageUrls, outcome \in ImageOutcomes :
          Returned(uncached_load_image_from_url(url, outcome),
                   "load_image_from_url", <<url>>)
    /\ UNCHANGED shared

NextGateway ==
    \/ CallMakeRequest
    \/ HttpGetMarsWeather
    \/ HttpGetRoverPhotos
    \/ HttpLoadImageFromUrl
    \/ Rerun

SpecGateway == InitGateway /\ [][NextGateway]_vars

(***************************************************************************)
(* Claims about the gateway.                                               *)
(***************************************************************************)
MakeRequestReturned == pc = "done" /\ fn = "_make_request"

\* the outcome of the i-th GET of the call
OutcomeOf(i) == requests[i].outcome

GetTimedOut(o) == o.kind = "raise" /\ "Timeout" \in o.exc.bases

GetRateLimited(o) == o.kind = "response" /\ o.status = 429

GetHttpError(o) ==
    o.kind = "response" /\ o.status >= 400 /\ o.status < 600 /\ o.status # 429

GetNetworkFailure(o) ==
    o.kind = "raise" /\ "Timeout" \notin o.exc.bases
                     /\ "RequestException" \in o.exc.bases

GetFailed(o) ==
    GetTimedOut(o) \/ GetRateLimited(o) \/ GetHttpError(o) \/ GetNetworkFailure(o)

\* C11: every failure of the single GET of _make_request (a timeout, a
\* status 429, another HTTP error status, another network-level failure) is
\* answered with None, no exception leaves the method, and exactly one
\* notice is emitted: the one of its condition, the four being distinct and
\* the HTTP-error notice carrying the status code.
C11_FailureMappedToOneCondition ==
    (MakeRequestReturned /\ GetFailed(OutcomeOf(1))) =>
        LET o == OutcomeOf(1)
        IN  /\ result = [kind |-> "return", value |-> None]
            /\ Len(notices) = 1
            /\ GetTimedOut(o) <=>
                 notices[1] = "error: Request timeout - NASA servers might be slow"
            /\ GetRateLimited(o) <=> notices[1] = "error: Rate limit exceeded"
            /\ GetHttpError(o) <=>
                 /\ o.kind = "response"
                 /\ notices[1] = "error: HTTP Error " \o ToString(o.status)
            /\ GetNetworkFailure(o) <=> notices[1] = "error: Network error"

\* a connect timeout, which is a connection error too, reported as a timeout
C11_Witness ==
    /\ MakeRequestReturned
    /\ OutcomeOf(1).kind = "raise"
    /\ OutcomeOf(1).exc.class = "ConnectTimeout"
    /\ notices = <<"error: Request timeout - NASA servers might be slow">>
    /\ result = [kind |-> "return", value |-> None]

GetSucceeded(o) ==
    o.kind = "response" /\ o.status < 400 /\ o.json # None

\* the day the scan picks in a manifest body: the last entry with images
SelectedSolIs(body, sol) ==
    /\ "sols" \in DOMAIN body
    /\ \E i \in 1..Len(body.sols) :
          /\ "num_images" \in DOMAIN body.sols[i]
          /\ body.sols[i].num_images > 0
          /\ body.sols[i].sol = sol
          /\ \A j \in (i+1)..Len(body.sols) :
                ~("num_images" \in DOMAIN body.sols[j] /\ body.sols[j].num_images > 0)

CACHE_TTL_SECONDS == 3600

MaxClock == 5400

\* the time that passes between two calls
TickSteps == {1799, 1801}

cache_key(name, arguments) == <<name, arguments>>

\* the lookup with entries that never expire
cache_lookup_without_ttl(key) ==
    IF key \in DOMAIN cache THEN Some(cache[key]) ELSE None

\* the lookup answering with whatever entry there is
cache_lookup_any_key(key) ==
    IF DOMAIN cache # {}
    THEN Some(cache[CHOOSE k \in DOMAIN cache : TRUE])
    ELSE None

\* the entry of key, while it is younger than the ttl
cache_lookup(key) ==
    IF key \in DOMAIN cache /\ clock < cache[key].stored_at + CACHE_TTL_SECONDS
    THEN Some(cache[key])
    ELSE None

cache_store(key, out) ==
    [k \in DOMAIN cache \cup {key} |->
        IF k = key
        THEN [value |-> out.result.value, notices |-> out.notices, stored_at |-> clock]
        ELSE cache[k]]

cache_drop(key) == [k \in DOMAIN cache \ {key} |-> cache[k]]

\* the store after the method ran on a miss
cache_after_miss(key, out) ==
    IF out.result.kind = "return" THEN cache_store(key, out) ELSE cache_drop(key)

\* one call of a decorated method: out is what its body does if it runs
CachedCall(name, arguments, out) ==
    LET key == cache_key(name, arguments)
        hit == cache_lookup(key)
    IN  IF hit # None
        THEN /\ Returned([result |-> Return(hit[1].value),
                          notices |-> hit[1].notices, gets |-> <<>>],
                         name, arguments)
             /\ cache' = cache
        ELSE /\ Returned(out, name, arguments)
             /\ cache' = cache_after_miss(key, out)

\* what the network answers in the runs with the cache
CachedWeatherOutcomes ==
    { [kind |-> "raise", exc |-> Exc("Timeout", {"RequestException"})] }
    \cup JsonResponses({ << <<<<"1">>, FullDay>> >>, << <<<<"sup2">>, FullDay>> >> })

CachedManifestOutcomes ==
    { [kind |-> "response", status |-> 429, json |-> None, json_error |-> None] }
    \cup JsonResponses({ [sols |-> <<[sol |-> 1, num_images |-> 3]>>] })

CachedSolOutcomes == JsonResponses({ [images |-> <<ImageA>>] })

CachedImageOutcomes ==
    { [kind |-> "raise", exc |-> Exc("ConnectionError", {"RequestException"})],
      [kind |-> "response", status |-> 200, image |-> Some("image A")] }

CachedRoverNames == { Curiosity, <<"p","e","r","s","e","v","e","r","a","n","c","e">> }

GetMarsWeather ==
    /\ \E outcome \in CachedWeatherOutcomes :
          CachedCall("get_mars_weather", <<>>, uncached_get_mars_weather(outcome))
    /\ UNCHANGED <<clock, sessions, environ, view>>

GetRoverPhotos ==
    /\ \E rover_name \in CachedRoverNames, outcome1 \in CachedManifestOutcomes,
          outcome2 \in CachedSolOutcomes :
          CachedCall("get_rover_photos", <<rover_name, DEFAULT_NUM_PHOTOS>>,
                     uncached_get_rover_photos(rover_name, DEFAULT_NUM_PHOTOS,
                                               outcome1, outcome2))
    /\ UNCHANGED <<clock, sessions, environ, view>>

LoadImageFromUrl ==
    /\ \E outcome \in CachedImageOutcomes :
          CachedCall("load_image_from_url", <<ImageA.urlList>>,
                     uncached_load_image_from_url(ImageA.urlList, outcome))
    /\ UNCHANGED <<clock, sessions, environ, view>>

\* time passes between two interactions
Tick ==
    /\ \E d \in TickSteps :
          /\ clock + d <= MaxClock
          /\ clock' = clock + d
    /\ UNCHANGED <<frame, cache, sessions, environ, view>>

NextCache == GetMarsWeather \/ GetRoverPhotos \/ LoadImageFromUrl \/ Tick

SpecCache == Init /\ [][NextCache]_vars

(***************************************************************************)
(* Claims about the cache.                                                 *)
(***************************************************************************)
\* a step that is a call of a decorated method (time stands still in it)
IsCallStep == clock' = clock /\ pc' = "done"

CalledKey == <<fn', args'>>

\* the age, at the time of the call, of the entry the call looks up
EntryAge == clock - cache[CalledKey].stored_at

\* the body of the called method sends a GET whenever it runs
BodySendsGet ==
    \/ fn' \in {"get_mars_weather", "load_image_from_url"}
    \/ fn' = "get_rover_photos" /\ lower(args'[1]) = Curiosity

\* C13: the cache is keyed by the method and its arguments and an entry is
\* valid for 3600 seconds.  A call whose key has an entry younger than that
\* sends no GET and returns the value the earlier call returned; a call
\* whose key has an entry of 3600 seconds or more runs the method again
\* (a GET is sent) and the entry it leaves is a new one.
C13_HitInsideWindowRefetchAfter ==
    [][ IsCallStep =>
          /\ (CalledKey \in DOMAIN cache /\ EntryAge < 3600) =>
                /\ requests' = <<>>
                /\ result' = [kind |-> "return", value |-> cache[CalledKey].value]
                /\ cache' = cache
                /\ (pc = "done" /\ fn = fn' /\ args = args'
                      /\ result.kind = "return") => result' = result
          /\ (CalledKey \in DOMAIN cache /\ EntryAge >= 3600) =>
                /\ BodySendsGet => Len(requests') >= 1
                /\ CalledKey \in DOMAIN cache' =>
                      cache'[CalledKey].stored_at = clock
          /\ result'.kind = "return" =>
                /\ CalledKey \in DOMAIN cache'
                /\ cache'[CalledKey].value = result'.value
      ]_vars

\* photos answered from an entry stored earlier, no GET sent
C13_Witness ==
    /\ pc = "done"
    /\ fn = "get_rover_photos"
    /\ requests = <<>>
    /\ result.kind = "return"
    /\ result.value # None
    /\ <<fn, args>> \in DOMAIN cache
    /\ cache[<<fn, args>>].stored_at < clock
    /\ clock - cache[<<fn, args>>].stored_at < 3600

\* the call ended in a transient condition: its last GET failed
EndedInTransientCondition ==
    /\ pc = "done"
    /\ fn \in {"get_mars_weather", "get_rover_photos"}
    /\ requests # <<>>
    /\ GetFailed(OutcomeOf(Len(requests)))

\* C14: a fetch that ended in a transient condition (timeout, 429, another
\* HTTP error, network error) is not stored: the next call of the same
\* method with the same arguments sends a GET, whatever the time between
\* the two calls.
C14_FailedFetchIsFetchedAgain ==
    [][ (EndedInTransientCondition /\ IsCallStep /\ fn' = fn /\ args' = args)
          => requests' # <<>> ]_vars

(***************************************************************************)
(* Two script runs (sessions) using the decorated methods at the same      *)
(* time.  The read-through of the cache is taken apart into its three      *)
(* steps, check, fetch and store, and the steps of the sessions interleave *)
(* freely: nothing is locked.  requests is the log of the fetches made.    *)
(***************************************************************************)
Sessions == {"s1", "s2"}

MaxFetches == 3

IdleSession ==
    [pc |-> "idle", name |-> "none", arguments |-> <<>>,
     fetched |-> None, result |-> None]

\* the calls a script run makes
SessionCalls ==
    { [name |-> "get_mars_weather", arguments |-> <<>>],
      [name |-> "get_rover_photos", arguments |-> <<Curiosity, DEFAULT_NUM_PHOTOS>>] }

\* what the body of the called method may come to
SessionFetches(name, arguments) ==
    IF name = "get_mars_weather"
    THEN { uncached_get_mars_weather(o) : o \in CachedWeatherOutcomes }
    ELSE { uncached_get_rover_photos(arguments[1], arguments[2], o1, o2) :
              o1 \in CachedManifestOutcomes, o2 \in CachedSolOutcomes }

InitSessions ==
    /\ pc = "idle"
    /\ fn = "none"
    /\ args = <<>>
    /\ requests = <<>>
    /\ notices = <<>>
    /\ result = None
    /\ cache = <<>>
    /\ clock = 0
    /\ sessions = [s \in Sessions |-> IdleSession]
    /\ environ = [has_streamlit |-> TRUE, secrets |-> None,
                  env |-> ("NASA_API_KEY" :> "DEMO_KEY")]
    /\ view = <<>>

\* the wrapper looks the key up: a hit returns the entry's value
SessionCheck(s) ==
    /\ sessions[s].pc = "idle"
    /\ \E call \in SessionCalls :
          LET hit == cache_lookup(cache_key(call.name, call.arguments))
          IN  sessions' = [sessions EXCEPT ![s] =
                  [pc |-> IF hit # None THEN "done" ELSE "fetch",
                   name |-> call.name, arguments |-> call.arguments,
                   fetched |-> None,
                   result |-> IF hit # None THEN Return(hit[1].value) ELSE None]]
    /\ UNCHANGED <<frame, cache, clock, environ, view>>

\* after a miss the method body runs
SessionFetch(s) ==
    /\ sessions[s].pc = "fetch"
    /\ Len(requests) < MaxFetches
    /\ \E out \in SessionFetches(sessions[s].name, sessions[s].arguments) :
          /\ sessions' = [sessions EXCEPT ![s] =
                  [@ EXCEPT !.pc = IF out.result.kind = "return" THEN "store" ELSE "done",
                            !.fetched = Some([result |-> out.result, notices |-> out.notices]),
                            !.result = IF out.result.kind = "return" THEN None
                                       ELSE out.result]]
          /\ requests' = Append(requests,
                  [name |-> sessions[s].name, arguments |-> sessions[s].arguments,
                   result |-> out.result])
    /\ UNCHANGED <<pc, fn, args, notices, result, cache, clock, environ, view>>

\* what the body returned is stored under the key and returned
SessionStore(s) ==
    /\ sessions[s].pc = "store"
    /\ cache' = cache_after_miss(cache_key(sessions[s].name, sessions[s].arguments),
                                 sessions[s].fetched[1])
    /\ sessions' = [sessions EXCEPT ![s] =
            [@ EXCEPT !.pc = "done", !.result = sessions[s].fetched[1].result]]
    /\ UNCHANGED <<frame, clock, environ, view>>

\* the script run goes on to its next call
SessionEnd(s) ==
    /\ sessions[s].pc = "done"
    /\ sessions' = [sessions EXCEPT ![s] = IdleSession]
    /\ UNCHANGED <<frame, cache, clock, environ, view>>

NextSessions ==
    \E s \in Sessions :
        SessionCheck(s) \/ SessionFetch(s) \/ SessionStore(s) \/ SessionEnd(s)

SpecSessions == InitSessions /\ [][NextSessions]_vars

\* a fetch in the log that was made for the key and came to the value
FetchedFor(name, arguments, value) ==
    \E i \in 1..Len(requests) :
        /\ requests[i].name = name
        /\ requests[i].arguments = arguments
        /\ requests[i].result = [kind |-> "return", value |-> value]

\* C15: whatever the interleaving of the check, fetch and store steps of
\* two sessions, every cache entry holds a value that a fetch for the
\* entry's own key returned, and every session that has returned holds a
\* value that a fetch for its own key returned; fetching twice is all that
\* the missing lock allows.
C15_RaceOnlyDuplicatesFetch ==
    /\ \A key \in DOMAIN cache : FetchedFor(key[1], key[2], cache[key].value)
    /\ \A s \in Sessions :
          (sessions[s].pc = "done" /\ sessions[s].result.kind = "return") =>
              FetchedFor(sessions[s].name, sessions[s].arguments,
                         sessions[s].result.value)

\* both sessions missed on the same key and fetched it, with different
\* answers; the second store has replaced the first
C15_Witness ==
    /\ sessions["s1"].pc = "done"
    /\ sessions["s2"].pc = "done"
    /\ sessions["s1"].name = sessions["s2"].name
    /\ sessions["s1"].fetched # None
    /\ sessions["s2"].fetched # None
    /\ sessions["s1"].result.kind = "return"
    /\ sessions["s2"].result.kind = "return"
    /\ sessions["s1"].result # sessions["s2"].result
    /\ cache[<<sessions["s1"].name, sessions["s1"].arguments>>].value
          = sessions["s1"].result.value

(***************************************************************************)
(* config.get_nasa_api_key called under every combination of sources.      *)
(***************************************************************************)
SecretStores ==
    { None, Some(EmptyDict), Some([OTHER_SETTING |-> "x"]) }
    \cup { Some([NASA_API_KEY |-> k]) : k \in KeyValues \cup {""} }

EnvironBlocks ==
    { EmptyDict, [PATH |-> "/usr/bin"] }
    \cup { [NASA_API_KEY |-> k] : k \in KeyValues \cup {""} }

Environments ==
    { [has_streamlit |-> h, secrets |-> s, env |-> e] :
        h \in BOOLEAN, s \in SecretStores, e \in EnvironBlocks }

InitConfig ==
    /\ pc = "idle"
    /\ fn = "none"
    /\ args = <<>>
    /\ requests = <<>>
    /\ notices = <<>>
    /\ result = None
    /\ cache = <<>>
    /\ clock = 0
    /\ sessions = <<>>
    /\ environ \in Environments
    /\ view = <<>>

CallGetNasaApiKey ==
    /\ pc = "idle"
    /\ fn' = "get_nasa_api_key"
    /\ args' = <<>>
    /\ requests' = <<>>
    /\ notices' = <<>>
    /\ result' = get_nasa_api_key(environ)
    /\ pc' = "done"
    /\ UNCHANGED shared

NextConfig == CallGetNasaApiKey \/ Rerun

SpecConfig == InitConfig /\ [][NextConfig]_vars

ApiKeyReturned == pc = "done" /\ fn = "get_nasa_api_key"

\* the secret store can be read and has an entry for the key
StoreHasKey ==
    /\ environ.has_streamlit
    /\ environ.secrets # None
    /\ "NASA_API_KEY" \in DOMAIN environ.secrets[1]

\* the environment variable is set and not empty
EnvHasKey ==
    /\ "NASA_API_KEY" \in DOMAIN environ.env
    /\ environ.env["NASA_API_KEY"] # ""

\* C16: get_nasa_api_key returns the secret store's NASA_API_KEY entry when
\* the store has one, whatever the environment holds; otherwise the
\* NASA_API_KEY environment variable when it is set and not empty; and it
\* raises ValueError exactly when the key is in neither.
C16_SecretsThenEnvironmentThenError ==
    ApiKeyReturned =>
        /\ StoreHasKey =>
              result = [kind |-> "str", value |-> environ.secrets[1]["NASA_API_KEY"]]
        /\ (~StoreHasKey /\ EnvHasKey) =>
              result = [kind |-> "str", value |-> environ.env["NASA_API_KEY"]]
        /\ (~StoreHasKey /\ ~EnvHasKey) <=> result.kind = "ValueError"

\* both sources hold a key, a different one each: the store's is returned
C16_Witness ==
    /\ ApiKeyReturned
    /\ StoreHasKey
    /\ EnvHasKey
    /\ environ.secrets[1]["NASA_API_KEY"] # environ.env["NASA_API_KEY"]
    /\ result.kind = "str"
    /\ result.value = environ.secrets[1]["NASA_API_KEY"]

(***************************************************************************)
(* app.py: one run of the script.  Streamlit runs the whole script on      *)
(* every interaction: the imports of lines 6-16, among them the module of  *)
(* the client with its module-level nasa_client = NASAClient(), and then   *)
(* main().  view is what the run has rendered, notices what the client's   *)
(* methods reported, result whether an exception left the script.          *)
(***************************************************************************)
\* nasa_client = NASAClient(): None when __init__ raised (no key)
nasa_client ==
    IF get_nasa_api_key(environ).kind = "str"
    THEN Some([api_key |-> get_nasa_api_key(environ).value,
               session_params |-> session_params])
    ELSE None

\* the accessor app.py and photo_gallery.py import: it hands out the
\* process-wide singleton
get_nasa_client == nasa_client[1]

\* a decorated method called on a cache c: the outcome and the cache after
cached(c, name, arguments, out) ==
    LET key == cache_key(name, arguments)
        fresh == key \in DOMAIN c /\ clock < c[key].stored_at + CACHE_TTL_SECONDS
    IN  IF fresh
        THEN [out |-> [result |-> Return(c[key].value),
                       notices |-> c[key].notices, gets |-> <<>>],
              cache |-> c]
        ELSE IF out.result.kind = "return"
        THEN [out |-> out,
              cache |-> [k \in DOMAIN c \cup {key} |->
                            IF k = key
                            THEN [value |-> out.result.value,
                                  notices |-> out.notices, stored_at |-> clock]
                            ELSE c[k]]]
        ELSE [out |-> out, cache |-> [k \in DOMAIN c \ {key} |-> c[k]]]

\* render_weather_metrics and, for a non-empty frame, the chart
render_weather(weather_df) ==
    IF weather_df.kind = "None" \/ weather_df.records = <<>>
    THEN <<"warning: Weather data unavailable", "divider", "divider">>
    ELSE <<"weather metrics", "divider", "temperature chart", "divider">>

\* render_photo_gallery: the images are loaded one after the other through
\* the decorated load_image_from_url; image_outcomes[i] answers the GET for
\* the i-th photo
RECURSIVE render_images(_, _, _, _)
render_images(photos, i, image_outcomes, acc) ==
    IF i > Len(photos) THEN acc
    ELSE
      LET url == photos[i].img_src
          call == cached(acc.cache, "load_image_from_url", <<url>>,
                         uncached_load_image_from_url(url, image_outcomes[i]))
          img == call.out.result.value
      IN  render_images(photos, i + 1, image_outcomes,
            [view |-> acc.view \o <<IF img # None THEN "image" ELSE "error: Could not load image",
                                    "photo details">>,
             notices |-> acc.notices \o call.out.notices,
             gets |-> acc.gets \o call.out.gets,
             cache |-> call.cache])

render_photo_gallery(photos, image_outcomes, c) ==
    IF photos = None \/ photos[1] = <<>>
    THEN [view |-> <<"warning: No photos available for this rover">>,
          notices |-> <<>>, gets |-> <<>>, cache |-> c]
    ELSE render_images(photos[1], 1, image_outcomes,
                       [view |-> <<"gallery">>, notices |-> <<>>,
                        gets |-> <<>>, cache |-> c])

\* the except clauses of main()
main_except(e) ==
    IF "ValueError" \in e.bases
    THEN <<"error: API Configuration Error", "info: add your NASA API key">>
    ELSE <<"error: An unexpected error occurred", "info: try refreshing the page">>

main_footer == <<"divider", "footer">>

\* main(): the widgets give selected_rover; the outcomes answer the GETs.
\* weather and photos are what the two fetches came to (photos None when
\* get_rover_photos was not called)
main(selected_rover, weather_outcome, outcome1, outcome2, image_outcomes) ==
    LET head == <<"title", "sidebar", "header: weather">>
        w == cached(cache, "get_mars_weather", <<>>,
                    uncached_get_mars_weather(weather_outcome))
    IN
    IF w.out.result.kind = "raise"
    THEN [view |-> head \o main_except(w.out.result.exc) \o main_footer,
          notices |-> w.out.notices, gets |-> w.out.gets, cache |-> w.cache,
          weather |-> w.out.result, photos |-> None]
    ELSE
      LET shown == head \o render_weather(w.out.result.value) \o <<"header: photos">>
          p == cached(w.cache, "get_rover_photos",
                      <<selected_rover, DEFAULT_NUM_PHOTOS>>,
                      uncached_get_rover_photos(selected_rover, DEFAULT_NUM_PHOTOS,
                                                outcome1, outcome2))
      IN
      IF p.out.result.kind = "raise"
      THEN [view |-> shown \o main_except(p.out.result.exc) \o main_footer,
            notices |-> w.out.notices \o p.out.notices,
            gets |-> w.out.gets \o p.out.gets, cache |-> p.cache,
            weather |-> w.out.result, photos |-> Some(p.out.result)]
      ELSE
        LET g == render_photo_gallery(p.out.result.value, image_outcomes, p.cache)
        IN  [view |-> shown \o g.view \o main_footer,
             notices |-> w.out.notices \o p.out.notices \o g.notices,
             gets |-> w.out.gets \o p.out.gets \o g.gets,
             cache |-> g.cache,
             weather |-> w.out.result, photos |-> Some(p.out.result)]

\* the credential sources the process is started under
AppEnvironments ==
    { [has_streamlit |-> TRUE, secrets |-> None, env |-> EmptyDict],
      [has_streamlit |-> TRUE, secrets |-> Some([OTHER_SETTING |-> "x"]),
       env |-> [NASA_API_KEY |-> ""]],
      [has_streamlit |-> TRUE, secrets |-> Some([NASA_API_KEY |-> "KEY_A"]),
       env |-> EmptyDict],
      [has_streamlit |-> FALSE, secrets |-> None, env |-> [NASA_API_KEY |-> "KEY_B"]] }

AppWeatherOutcomes ==
    CachedWeatherOutcomes \cup BadJsonResponses
    \cup { [kind |-> "response", status |-> 429, json |-> None, json_error |-> None] }
    \cup JsonResponses({ << <<<<"s","o","l","_","k","e","y","s">>, EmptyDict>> >> })

AppManifestOutcomes ==
    CachedManifestOutcomes \cup BadJsonResponses
    \cup { [kind |-> "raise", exc |-> Exc("Timeout", {"RequestException"})] }

AppSolOutcomes ==
    { [kind |-> "response", status |-> 500, json |-> None, json_error |-> None] }
    \cup JsonResponses({ [images |-> <<>>], [images |-> <<ImageA>>],
                         [images |-> <<ImageB, ImageA>>] })

\* one outcome for each of the (at most two) photos of a gallery
AppImageOutcomes == [1..2 -> CachedImageOutcomes]

InitApp ==
    /\ pc = "idle"
    /\ fn = "none"
    /\ args = <<>>
    /\ requests = <<>>
    /\ notices = <<>>
    /\ result = None
    /\ cache = <<>>
    /\ clock = 0
    /\ sessions = <<>>
    /\ environ \in AppEnvironments
    /\ view = <<>>

\* the import of the client's module raised: the run ends there
ImportRaised ==
    /\ args' = <<>>
    /\ requests' = <<>>
    /\ notices' = <<>>
    /\ view' = <<>>
    /\ cache' = cache
    /\ result' = Raise(Exc("ValueError", {}))

MainRan(selected_rover, m) ==
    /\ args' = <<selected_rover>>
    /\ requests' = m.gets
    /\ notices' = m.notices
    /\ view' = m.view
    /\ cache' = m.cache
    /\ result' = Return([weather |-> m.weather, photos |-> m.photos])

\* one run of app.py
RunApp ==
    /\ pc = "idle"
    /\ IF nasa_client = None
       THEN ImportRaised
       ELSE \E selected_rover \in CachedRoverNames,
               weather_outcome \in AppWeatherOutcomes,
               outcome1 \in AppManifestOutcomes,
               outcome2 \in AppSolOutcomes,
               image_outcomes \in AppImageOutcomes :
               MainRan(selected_rover,
                       main(selected_rover, weather_outcome, outcome1, outcome2,
                            image_outcomes))
    /\ fn' = "app"
    /\ pc' = "done"
    /\ UNCHANGED <<clock, sessions, environ>>

NextApp == RunApp \/ Rerun

SpecApp == InitApp /\ [][NextApp]_vars

(***************************************************************************)
(* Claims about the script run.                                            *)
(***************************************************************************)
AppRan == pc = "done" /\ fn = "app"

CredentialMissing == ~StoreHasKey /\ ~EnvHasKey

Rendered(element) == \E i \in 1..Len(view) : view[i] = element

\* C17: whatever the credential lookup, the GETs and the payloads come to,
\* a run of the script ends with the footer rendered and no exception
\* leaving it.
C17_RunEndsWithFooter ==
    AppRan =>
        /\ result.kind = "return"
        /\ view # <<>>
        /\ view[Len(view)] = "footer"

WeatherDisplayed ==
    Rendered("weather metrics") \/ Rendered("warning: Weather data unavailable")

\* C18: in every run of main() the photos section is fetched and rendered,
\* whatever the weather section came to (an exception included), and the
\* weather section is displayed whatever the photos section came to.
C18_SectionsContained ==
    (AppRan /\ result.kind = "return") =>
        /\ result.value.photos # None
        /\ Rendered("header: photos")
        /\ result.value.weather.kind = "return" => WeatherDisplayed

\* C19: the configuration-error notice is rendered in a run exactly when
\* the credential is missing from both sources.
C19_ConfigNoticeIffCredentialMissing ==
    AppRan => (Rendered("error: API Configuration Error") <=> CredentialMissing)

\* the key the client was constructed with: the store's entry, else the
\* environment's
ResolvedKey ==
    IF StoreHasKey THEN environ.secrets[1]["NASA_API_KEY"]
    ELSE environ.env["NASA_API_KEY"]

\* C20: every GET sent through the client's session (by _make_request, and
\* so by get_mars_weather and get_rover_photos: weather endpoint, manifest,
\* per-day image list) carries the resolved key as the query parameter
\* api_key; load_image_from_url sends one plain GET to the URL it was given,
\* outside the session and without the key.
C20_KeyOnGatewayRequestsOnly ==
    (pc = "done") =>
        /\ fn \in {"_make_request", "get_mars_weather", "get_rover_photos"} =>
              \A i \in 1..Len(requests) :
                  /\ requests[i].get.via = "session"
                  /\ "api_key" \in DOMAIN requests[i].get.params
                  /\ requests[i].get.params["api_key"] = ResolvedKey
        /\ fn = "load_image_from_url" =>
              /\ Len(requests) = 1
              /\ requests[1].get.via = "requests"
              /\ requests[1].get.url = args[1]
              /\ "api_key" \notin DOMAIN requests[1].get.params

\* the weather request: the key next to the call's own parameters
C20_Witness ==
    /\ pc = "done"
    /\ fn = "get_mars_weather"
    /\ StoreHasKey
    /\ requests[1].get.params =
          [api_key |-> "KEY_A", feedtype |-> "json", ver |-> "1.0"]

(***************************************************************************)
(* src/utils/helpers.py: unit conversion and display formatting.           *)
(*                                                                         *)
(* The functions compute on Python floats, which are IEEE 754 binary64     *)
(* numbers: every arithmetic operation returns the exact result rounded to *)
(* 53 significant bits, ties to even.  A float is the record [neg, m, e]   *)
(* of value (-1)^neg * m * 2^e with 2^52 <= m < 2^53, or Zero.  Such an m  *)
(* exceeds the 32-bit integers of TLC, so a natural number is held         *)
(* as the sequence of its digits in base 2^15, lowest first and without    *)
(* leading zeros.  The inputs stay far from the overflow and subnormal     *)
(* ranges, which are not modelled.                                         *)
(***************************************************************************)
MantissaBits == 53

LimbBits == 15

Base == 2^LimbBits

\* a quotient is computed with this many binary places beyond the mantissa,
\* enough for every divisor below Base
GuardBits == LimbBits + 2

Max(a, b) == IF a >= b THEN a ELSE b

Min(a, b) == IF a <= b THEN a ELSE b

Abs(n) == IF n < 0 THEN -n ELSE n

LimbAt(M, i) == IF i \in DOMAIN M THEN M[i] ELSE 0

TrimLimbs(M) ==
    IF \A i \in DOMAIN M : M[i] = 0 THEN <<>>
    ELSE SubSeq(M, 1, CHOOSE i \in DOMAIN M :
                          M[i] # 0 /\ \A j \in DOMAIN M : j > i => M[j] = 0)

\* a natural number below 2^30
FromNat(n) == TrimLimbs(<<n % Base, n \div Base>>)

\* the natural number of at most two digits
NatValue(M) == LimbAt(M, 1) + Base * LimbAt(M, 2)

\* the number of binary digits
BitLen(M) ==
    IF M = <<>> THEN 0
    ELSE LimbBits * (Len(M) - 1)
            + (CHOOSE w \in 1..LimbBits : M[Len(M)] < 2^w /\ M[Len(M)] >= 2^(w - 1))

\* the binary digit of place p, counted from 1
BitOf(M, p) == (LimbAt(M, (p - 1) \div LimbBits + 1) \div 2^((p - 1) % LimbBits)) % 2

\* the k lowest binary digits are all zero
LowBitsZero(M, k) ==
    /\ \A i \in 1..(k \div LimbBits) : LimbAt(M, i) = 0
    /\ LimbAt(M, k \div LimbBits + 1) % 2^(k % LimbBits) = 0

AddNat(A, B) ==
    LET L == Max(Len(A), Len(B)) + 1
        carry[i \in 0..L] ==
            IF i = 0 THEN 0
            ELSE (LimbAt(A, i) + LimbAt(B, i) + carry[i - 1]) \div Base
    IN  TrimLimbs([i \in 1..L |-> (LimbAt(A, i) + LimbAt(B, i) + carry[i - 1]) % Base])

\* A - B for A >= B
SubNat(A, B) ==
    LET L == Max(Len(A), Len(B))
        borrow[i \in 0..L] ==
            IF i = 0 THEN 0
            ELSE IF LimbAt(A, i) - LimbAt(B, i) - borrow[i - 1] < 0 THEN 1 ELSE 0
    IN  TrimLimbs([i \in 1..L |->
                     (LimbAt(A, i) - LimbAt(B, i) - borrow[i - 1] + Base) % Base])

LessNat(A, B) ==
    \E i \in 1..Max(Len(A), Len(B)) :
        /\ LimbAt(A, i) < LimbAt(B, i)
        /\ \A j \in (i + 1)..Max(Len(A), Len(B)) : LimbAt(A, j) = LimbAt(B, j)

\* M * n for a natural number n below Base
MulSmall(M, n) ==
    LET L == Len(M) + 1
        carry[i \in 0..L] ==
            IF i = 0 THEN 0 ELSE (LimbAt(M, i) * n + carry[i - 1]) \div Base
    IN  TrimLimbs([i \in 1..L |-> (LimbAt(M, i) * n + carry[i - 1]) % Base])

\* quotient and remainder of M by a natural number n, 0 < n < Base
DivSmall(M, n) ==
    LET L == Len(M)
        \* the remainder after the i highest digits
        rem[i \in 0..L] ==
            IF i = 0 THEN 0 ELSE (rem[i - 1] * Base + M[L - i + 1]) % n
    IN  [quot |-> TrimLimbs([p \in 1..L |-> (rem[L - p] * Base + M[p]) \div n]),
         rem |-> rem[L]]

ShiftLeft(M, k) ==
    MulSmall([i \in 1..(k \div LimbBits) |-> 0] \o M, 2^(k % LimbBits))

ShiftRight(M, k) ==
    DivSmall(SubSeq(M, k \div LimbBits + 1, Len(M)), 2^(k % LimbBits)).quot

Zero == [neg |-> FALSE, m |-> <<>>, e |-> 0]

\* not-a-number, which pandas puts where a numeric column has no value
NaN == [nan |-> TRUE]

\* the float nearest to (-1)^neg * (M + fraction) * 2^e, ties to even, where
\* sticky tells that a fraction below one unit of M was dropped
RoundToNearestEven(neg, M, e, sticky) ==
    LET drop == BitLen(M) - MantissaBits
    IN  IF M = <<>> THEN Zero
        ELSE IF drop <= 0 THEN [neg |-> neg, m |-> ShiftLeft(M, -drop), e |-> e + drop]
        ELSE LET kept == ShiftRight(M, drop)
                 half == BitOf(M, drop) = 1
                 rest == sticky \/ ~LowBitsZero(M, drop - 1)
                 up == half /\ (rest \/ BitOf(kept, 1) = 1)
                 rounded == IF up THEN AddNat(kept, <<1>>) ELSE kept
             IN  IF BitLen(rounded) > MantissaBits
                 THEN [neg |-> neg, m |-> ShiftRight(rounded, 1), e |-> e + drop + 1]
                 ELSE [neg |-> neg, m |-> rounded, e |-> e + drop]

\* float(k) for an int k, |k| < 2^30
FromInt(k) == RoundToNearestEven(k < 0, FromNat(Abs(k)), 0, FALSE)

\* x * n for an int n, 0 <= n < Base
fmul(x, n) ==
    IF x = NaN THEN NaN
    ELSE RoundToNearestEven(x.neg, MulSmall(x.m, n), x.e, FALSE)

\* x / n for an int n, 0 < n < Base
fdiv(x, n) ==
    IF x = NaN THEN NaN
    ELSE IF x = Zero THEN Zero
    ELSE LET d == DivSmall(ShiftLeft(x.m, GuardBits), n)
         IN  RoundToNearestEven(x.neg, d.quot, x.e - GuardBits, d.rem # 0)

fneg(x) == IF x = NaN \/ x = Zero THEN x ELSE [x EXCEPT !.neg = ~x.neg]

\* x + y; an operand more than 60 binary places below the other one does not
\* change the rounded sum
fadd(x, y) ==
    LET low == Min(x.e, y.e)
        X == ShiftLeft(x.m, x.e - low)
        Y == ShiftLeft(y.m, y.e - low)
    IN  IF x = NaN \/ y = NaN THEN NaN
        ELSE IF x = Zero THEN y
        ELSE IF y = Zero THEN x
        ELSE IF x.e - y.e > 60 THEN x
        ELSE IF y.e - x.e > 60 THEN y
        ELSE IF x.neg = y.neg THEN RoundToNearestEven(x.neg, AddNat(X, Y), low, FALSE)
        ELSE IF LessNat(X, Y) THEN RoundToNearestEven(y.neg, SubNat(Y, X), low, FALSE)
        ELSE RoundToNearestEven(x.neg, SubNat(X, Y), low, FALSE)

fsub(x, y) == fadd(x, fneg(y))

\* the float that the decimal literal k / 10^places parses to: the nearest one
Decimal(k, places) == fdiv(FromInt(k), 10^places)

celsius_to_fahrenheit_without_offset(celsius) ==
    IF celsius = None THEN None
    ELSE fdiv(fmul(celsius, 9), 5)

celsius_to_fahrenheit(celsius) ==
    IF celsius = None THEN None
    ELSE fadd(fdiv(fmul(celsius, 9), 5), FromInt(32))

fahrenheit_to_celsius(fahrenheit) ==
    IF fahrenheit = None THEN None
    ELSE fdiv(fmul(fsub(fahrenheit, FromInt(32)), 5), 9)

\* the decimal numeral of a natural number below 10^9
IntDigits(n) ==
    LET width == CHOOSE w \in 1..9 : n < 10^w /\ (w = 1 \/ n >= 10^(w - 1))
    IN  [i \in 1..width |-> DecimalChars[((n \div 10^(width - i)) % 10) + 1]]

\* format(value, ".<places>f"): the exact value rounded to that many decimal
\* places, ties to even, the sign kept when the digits are all zero
format_f(value, places) ==
    IF value = NaN THEN <<"n", "a", "n">>
    ELSE LET scaled == MulSmall(value.m, 10^places)
             shift == -value.e
             whole == IF shift <= 0 THEN ShiftLeft(scaled, -shift)
                      ELSE ShiftRight(scaled, shift)
             up == /\ shift > 0
                   /\ BitOf(scaled, shift) = 1
                   /\ ~LowBitsZero(scaled, shift - 1) \/ BitOf(whole, 1) = 1
             n == NatValue(IF up THEN AddNat(whole, <<1>>) ELSE whole)
         IN  (IF value.neg THEN <<"-">> ELSE <<>>)
             \o IntDigits(n \div 10^places)
             \o (IF places = 0 THEN <<>>
                 ELSE <<".">> \o [i \in 1..places |->
                                    DecimalChars[((n \div 10^(places - i)) % 10) + 1]])

\* the two characters of the source's symbol literals; the first one is
\* U+C9F8, a Hangul syllable, where the degree sign U+00B0 was meant
CelsiusSymbol == <<"U+C9F8", "C">>

FahrenheitSymbol == <<"U+C9F8", "F">>

format_temperature(temp, unit) ==
    IF temp = None THEN <<"N", "/", "A">>
    ELSE LET symbol == IF unit = <<"C">> THEN CelsiusSymbol ELSE FahrenheitSymbol
         IN  format_f(temp, 1) \o symbol

format_pressure(pressure) ==
    IF pressure = None THEN <<"N", "/", "A">>
    ELSE format_f(pressure, 0) \o <<" ", "P", "a">>

(***************************************************************************)
(* Calls of the helpers.  Temperatures are literals of one decimal place   *)
(* over the range of the surface of Mars, pressures literals around the    *)
(* pressures InSight reported; an absent value is None.                    *)
(***************************************************************************)
TemperatureTenths == { k \in (-1300)..300 : k % 3 = 0 }

PressureTenths == 7400..7600

Temperatures == { Decimal(k, 1) : k \in TemperatureTenths }

Pressures == { Decimal(k, 1) : k \in PressureTenths }

Units == { <<"C">>, <<"F">>, <<"K">>, <<"c">>, <<>> }

CallCelsiusToFahrenheit ==
    /\ pc = "idle"
    /\ \E celsius \in Temperatures \cup {None} :
          /\ args' = <<celsius>>
          /\ result' = celsius_to_fahrenheit(celsius)
    /\ fn' = "celsius_to_fahrenheit"
    /\ requests' = <<>>
    /\ notices' = <<>>
    /\ pc' = "done"
    /\ UNCHANGED shared

CallFahrenheitToCelsius ==
    /\ pc = "idle"
    /\ \E fahrenheit \in Temperatures \cup {None} :
          /\ args' = <<fahrenheit>>
          /\ result' = fahrenheit_to_celsius(fahrenheit)
    /\ fn' = "fahrenheit_to_celsius"
    /\ requests' = <<>>
    /\ notices' = <<>>
    /\ pc' = "done"
    /\ UNCHANGED shared

CallFormatTemperature ==
    /\ pc = "idle"
    /\ \E temp \in Temperatures \cup {NaN, None}, unit \in Units :
          /\ args' = <<temp, unit>>
          /\ result' = format_temperature(temp, unit)
    /\ fn' = "format_temperature"
    /\ requests' = <<>>
    /\ notices' = <<>>
    /\ pc' = "done"
    /\ UNCHANGED shared

CallFormatPressure ==
    /\ pc = "idle"
    /\ \E pressure \in Pressures \cup {NaN, None} :
          /\ args' = <<pressure>>
          /\ result' = format_pressure(pressure)
    /\ fn' = "format_pressure"
    /\ requests' = <<>>
    /\ notices' = <<>>
    /\ pc' = "done"
    /\ UNCHANGED shared

NextHelpers ==
    \/ CallCelsiusToFahrenheit
    \/ CallFahrenheitToCelsius
    \/ CallFormatTemperature
    \/ CallFormatPressure
    \/ Rerun

SpecHelpers == Init /\ [][NextHelpers]_vars

(***************************************************************************)
(* C21: the two conversions undo each other.                               *)
(***************************************************************************)
Converted(name) == pc = "done" /\ fn = name

\* x and y differ by less than 2^-30, about 1e-9
Close(x, y) ==
    LET d == fsub(x, y)
    IN  d = Zero \/ d.e + MantissaBits <= -30

\* C21 as stated: for every Celsius input c, fahrenheit_to_celsius(
\* celsius_to_fahrenheit(c)) equals c, and for every Fahrenheit input f,
\* celsius_to_fahrenheit(fahrenheit_to_celsius(f)) equals f; either function
\* returns the absent value for the absent value.
C21_RoundTripIsExact ==
    /\ Converted("celsius_to_fahrenheit") =>
          IF args[1] = None THEN result = None
          ELSE fahrenheit_to_celsius(result) = args[1]
    /\ Converted("fahrenheit_to_celsius") =>
          IF args[1] = None THEN result = None
          ELSE celsius_to_fahrenheit(result) = args[1]

\* C21: for every Celsius input c, fahrenheit_to_celsius(
\* celsius_to_fahrenheit(c)) is within 2^-30 of c, and for every Fahrenheit
\* input f, celsius_to_fahrenheit(fahrenheit_to_celsius(f)) is within 2^-30
\* of f; either function returns the absent value for the absent value.
C21_RoundTripWithinTolerance ==
    /\ Converted("celsius_to_fahrenheit") =>
          IF args[1] = None THEN result = None
          ELSE Close(fahrenheit_to_celsius(result), args[1])
    /\ Converted("fahrenheit_to_celsius") =>
          IF args[1] = None THEN result = None
          ELSE Close(celsius_to_fahrenheit(result), args[1])

\* 3.0 degrees Celsius are 37.4 degrees Fahrenheit, which come back as
\* 2.999999999999999
C21_Witness ==
    /\ Converted("celsius_to_fahrenheit")
    /\ args[1] = FromInt(3)
    /\ result = Decimal(374, 1)
    /\ fahrenheit_to_celsius(result) # args[1]
    /\ Close(fahrenheit_to_celsius(result), args[1])

(***************************************************************************)
(* C22: the "N/A" sentinel and the unit symbols.                           *)
(***************************************************************************)
NotAvailable == <<"N", "/", "A">>

\* the last two characters
Suffix(text) == SubSeq(text, Len(text) - 1, Len(text))

\* C22: format_temperature(None, unit) is "N/A" for every unit and
\* format_pressure(None) is "N/A"; for a present value neither is "N/A", and
\* format_temperature ends in the Celsius symbol (the degree sign and C)
\* exactly when the unit is "C" and in the Fahrenheit symbol (the degree
\* sign and F) for every other unit.
C22_SentinelAndUnitSymbol ==
    /\ Converted("format_temperature") =>
          IF args[1] = None THEN result = NotAvailable
          ELSE /\ result # NotAvailable
               /\ Suffix(result) = IF args[2] = <<"C">> THEN <<"U+00B0", "C">>
                                   ELSE <<"U+00B0", "F">>
    /\ Converted("format_pressure") =>
          (args[1] = None <=> result = NotAvailable)

(***************************************************************************)
(* get_rover_photos over the timestamps of a day's images: with and        *)
(* without the date/time separator, with the separator first, with a       *)
(* second T after it, with a T that is no separator, empty and missing.    *)
(***************************************************************************)
Timestamps ==
    { <<"2","5","-","0","1","-","0","2","T","0","3",":","0","4","Z">>,
      <<"2","5","-","0","1","-","0","2","T","0","3",":","0","4"," ","U","T","C">>,
      <<"2","5","-","0","1","-","0","2"," ","0","3",":","0","4"," ","U","T","C">>,
      <<"2","5","-","0","1","-","0","2">>,
      <<"T","0","3",":","0","4">>,
      <<>> }

TimestampEntries == {[utc |-> ts] : ts \in Timestamps} \cup {EmptyDict}

\* the manifest names one day with images
DayManifest == [sols |-> <<[sol |-> 1, num_images |-> 3]>>]

DayBodies == {[images |-> list] : list \in SeqsUpTo(TimestampEntries, MaxImages)}

CallGetRoverPhotosOfDay ==
    /\ pc = "idle"
    /\ \E num_photos \in 1..MaxPhotos, body \in DayBodies :
          LET out == get_rover_photos(Curiosity, num_photos,
                                      Some(DayManifest), Some(body))
          IN  /\ args' = <<Curiosity, num_photos>>
              /\ requests' = out.requests
              /\ notices' = out.notices
              /\ result' = out.value
    /\ fn' = "get_rover_photos"
    /\ pc' = "done"
    /\ UNCHANGED shared

NextPhotoRecords == CallGetRoverPhotosOfDay \/ Rerun

SpecPhotoRecords == Init /\ [][NextPhotoRecords]_vars

\* the upstream timestamp of an image entry, "" when it has none
TimestampOf(img) == IF "utc" \in DOMAIN img THEN img.utc ELSE <<>>

\* date is the part of timestamp before its first "T", or all of it
IsDatePartOf(date, timestamp) ==
    IF \E j \in DOMAIN timestamp : timestamp[j] = "T"
    THEN /\ Len(date) < Len(timestamp)
         /\ \A k \in 1..Len(date) : date[k] = timestamp[k] /\ date[k] # "T"
         /\ timestamp[Len(date) + 1] = "T"
    ELSE date = timestamp

\* C23: each PhotoRecord's earth_date is the part of the upstream timestamp
\* before its first date/time separator "T", the whole timestamp when it
\* contains no separator, and the empty string when the timestamp is missing.
C23_EarthDateIsPartBeforeFirstSeparator ==
    (PhotosReturned /\ result # None) =>
        /\ ImagesFetched
        /\ Len(result[1]) <= Len(UpstreamImages)
        /\ \A i \in 1..Len(result[1]) :
              /\ IsDatePartOf(result[1][i].earth_date, TimestampOf(UpstreamImages[i]))
              /\ "utc" \notin DOMAIN UpstreamImages[i] => result[1][i].earth_date = <<>>

\* a timestamp with a second T after the separator was cut at the first one,
\* and the entry after it, which has no timestamp, got the empty date
C23_Witness ==
    /\ ImagesFetched
    /\ result # None
    /\ Len(result[1]) = 2
    /\ UpstreamImages[1] =
          [utc |-> <<"2","5","-","0","1","-","0","2","T","0","3",":","0","4"," ","U","T","C">>]
    /\ result[1][1].earth_date = <<"2","5","-","0","1","-","0","2">>
    /\ UpstreamImages[2] = EmptyDict
    /\ result[1][2].earth_date = <<>>

(***************************************************************************)
(* C25: one record for each entry of the truncated list, whatever fields   *)
(* the entry lacks.                                                        *)
(***************************************************************************)
\* the length of images[:num_photos]
TruncatedCount ==
    IF args[2] >= 0
    THEN (IF args[2] < Len(UpstreamImages) THEN args[2] ELSE Len(UpstreamImages))
    ELSE (IF Len(UpstreamImages) + args[2] > 0 THEN Len(UpstreamImages) + args[2] ELSE 0)

\* the sol the manifest gave, which the per-day request was made for
RequestedSol == requests[2].url.sol[1]

\* C25: every image entry of the truncated list yields exactly one
\* PhotoRecord and a missing field never aborts the batch: rover is always
\* "Curiosity"; sol is the entry's own sol when present and otherwise the
\* sol selected from the manifest; a missing item name gives id "unknown"; a
\* missing instrument gives camera_abbr "Unknown"; an entry with a missing or
\* empty URL is kept, with img_src the empty string.
C25_OneRecordPerEntryWithDefaults ==
    (ImagesFetched /\ TruncatedCount >= 1) =>
        /\ result # None
        /\ Len(result[1]) = TruncatedCount
        /\ \A i \in 1..TruncatedCount :
              LET img == UpstreamImages[i]
                  photo == result[1][i]
              IN  /\ photo.rover = "Curiosity"
                  /\ photo.sol = IF "sol" \in DOMAIN img THEN img.sol ELSE RequestedSol
                  /\ "itemName" \notin DOMAIN img => photo.id = "unknown"
                  /\ "itemName" \in DOMAIN img => photo.id = img.itemName
                  /\ "instrument" \notin DOMAIN img =>
                        photo.camera_abbr = <<"U","n","k","n","o","w","n">>
                  /\ ("urlList" \notin DOMAIN img \/ img.urlList = "") =>
                        photo.img_src = ""

\* the day has entries with every field, with an empty URL and no sol, and
\* with no field at all: an entry with no field and one with every field
\* came back as two records, the first one all defaults
C25_Witness ==
    /\ ImagesFetched
    /\ result # None
    /\ Len(result[1]) = 2
    /\ UpstreamImages[1] = EmptyDict
    /\ result[1][1] = [id |-> "unknown", img_src |-> "",
                       camera_name |-> <<"U","n","k","n","o","w","n">>,
                       camera_abbr |-> <<"U","n","k","n","o","w","n">>,
                       sol |-> RequestedSol, earth_date |-> <<>>,
                       rover |-> "Curiosity"]
    /\ UpstreamImages[2] = ImageA
    /\ result[1][2].sol = 7
    /\ result[1][2].sol # RequestedSol

(***************************************************************************)
(* src/ui/weather_components.py: the metrics panel and the temperature     *)
(* chart.  The frame they are given is what get_mars_weather returned.  A  *)
(* numeric column of the frame holds floats: where a record has no value   *)
(* it holds nan, unless no record has one and the column holds None.       *)
(***************************************************************************)
MAX_SOLS_FOR_CHART == 7

MaxChartDays == 8

\* the day entries by sol; sol 2 has no sensor data
ChartDays ==
    [n \in 1..MaxChartDays |->
        IF n = 2 THEN EmptyDict
        ELSE [AT |-> [mn |-> Decimal(-950 - n, 1), mx |-> Decimal(-150 + n, 1),
                      av |-> Decimal(-620 - n, 1)],
              PRE |-> [av |-> Decimal(7500 + n, 1)],
              Season |-> "winter",
              First_UTC |-> "2020-10-19T18:32:20Z"]]

\* the payload lists its days by sol, or the sols 3, 6 before 1, 4, 7
\* before 2, 5, 8
PayloadOrders == {"ascending", "interleaved"}

Rank(order, n) == IF order = "ascending" THEN n ELSE (n % 3) * (MaxChartDays + 1) + n

OrderedSols(S, order) ==
    [i \in 1..Cardinality(S) |->
        CHOOSE n \in S : Cardinality({m \in S : Rank(order, m) < Rank(order, n)}) = i - 1]

\* the days of S, then for twice a second key of the highest sol ("08"), then
\* the key "sol_keys" the service sends along
ChartPayload(S, order, twice) ==
    LET sols == OrderedSols(S, order)
    IN  [i \in 1..Len(sols) |-> <<IntDigits(sols[i]), ChartDays[sols[i]]>>]
        \o (IF twice THEN << <<<<"0">> \o IntDigits(MaxChartDays), ChartDays[1]>> >>
            ELSE <<>>)
        \o << <<<<"s","o","l","_","k","e","y","s">>, EmptyDict>> >>

ChartPayloads ==
    { ChartPayload(S, order, twice) :
        S \in SUBSET (1..MaxChartDays), order \in PayloadOrders, twice \in BOOLEAN }

\* what get_mars_weather hands to the components: None or a DataFrame
WeatherFrames ==
    { [kind |-> out.kind, records |-> out.records] :
        out \in { get_mars_weather(Some(data)) : data \in ChartPayloads }
                \cup { get_mars_weather(None) } }

TempUnits == { <<"C">>, <<"F">> }

\* the value of a numeric column in a row of the frame; a record holds
\* Some(value) or None
frame_value(records, row, name) ==
    IF row[name] # None THEN row[name][1]
    ELSE IF \E i \in DOMAIN records : records[i][name] # None THEN NaN
    ELSE None

format_sol(sol) == <<"S", "o", "l", " ">> \o IntDigits(sol)

render_weather_metrics(weather_df, temp_unit) ==
    IF weather_df.kind = "None" \/ weather_df.records = <<>>
    THEN [notices |-> <<"warning: Weather data unavailable",
                        "info: Displaying historical Mars weather data">>,
          metrics |-> None]
    ELSE
      LET latest == weather_df.records[1]
          sol == latest.sol
          avg_temp_c == frame_value(weather_df.records, latest, "avg_temp_c")
          min_temp_c == frame_value(weather_df.records, latest, "min_temp_c")
          max_temp_c == frame_value(weather_df.records, latest, "max_temp_c")
          pressure == frame_value(weather_df.records, latest, "pressure_pa")
          avg_temp == IF temp_unit = <<"F">> THEN celsius_to_fahrenheit(avg_temp_c)
                      ELSE avg_temp_c
          min_temp == IF temp_unit = <<"F">> THEN celsius_to_fahrenheit(min_temp_c)
                      ELSE min_temp_c
          max_temp == IF temp_unit = <<"F">> THEN celsius_to_fahrenheit(max_temp_c)
                      ELSE max_temp_c
      IN  [notices |-> <<>>,
           metrics |-> Some([latest_sol |-> format_sol(sol),
                             avg_temperature |-> format_temperature(avg_temp, temp_unit),
                             pressure |-> format_pressure(pressure),
                             season |-> latest.season,
                             minimum |-> format_temperature(min_temp, temp_unit),
                             maximum |-> format_temperature(max_temp, temp_unit)])]

\* the frame's last n rows
tail(records, n) ==
    SubSeq(records, IF n < Len(records) THEN Len(records) - n + 1 ELSE 1, Len(records))

\* df.head(n)
head(records, n) == SubSeq(records, 1, IF n < Len(records) THEN n ELSE Len(records))

\* the figure handed to st.plotly_chart, None when nothing is drawn
render_temperature_chart(weather_df, temp_unit) ==
    IF weather_df.kind = "None" \/ weather_df.records = <<>> THEN None
    ELSE
      LET chart_data == SortBySol(head(weather_df.records, MAX_SOLS_FOR_CHART), TRUE)
          column(name) ==
              [i \in 1..Len(chart_data) |->
                  LET celsius == frame_value(weather_df.records, chart_data[i], name)
                  IN  IF temp_unit = <<"F">> THEN celsius_to_fahrenheit(celsius)
                      ELSE celsius]
      IN  Some([data |-> chart_data,
                x |-> [i \in 1..Len(chart_data) |-> chart_data[i].sol],
                max_temp |-> column("max_temp_c"),
                min_temp |-> column("min_temp_c"),
                avg_temp |-> column("avg_temp_c"),
                yaxis_title |-> IF temp_unit = <<"F">> THEN "Temperature (U+00B0F)"
                                ELSE "Temperature (U+00B0C)",
                last_sols |-> Len(chart_data)])

CallRenderWeatherMetrics ==
    /\ pc = "idle"
    /\ \E weather_df \in WeatherFrames, temp_unit \in TempUnits :
          LET out == render_weather_metrics(weather_df, temp_unit)
          IN  /\ args' = <<weather_df, temp_unit>>
              /\ notices' = out.notices
              /\ result' = out.metrics
    /\ fn' = "render_weather_metrics"
    /\ requests' = <<>>
    /\ pc' = "done"
    /\ UNCHANGED shared

CallRenderTemperatureChart ==
    /\ pc = "idle"
    /\ \E weather_df \in WeatherFrames, temp_unit \in TempUnits :
          /\ args' = <<weather_df, temp_unit>>
          /\ result' = render_temperature_chart(weather_df, temp_unit)
    /\ fn' = "render_temperature_chart"
    /\ requests' = <<>>
    /\ notices' = <<>>
    /\ pc' = "done"
    /\ UNCHANGED shared

NextComponents == CallRenderWeatherMetrics \/ CallRenderTemperatureChart \/ Rerun

SpecComponents == Init /\ [][NextComponents]_vars

(***************************************************************************)
(* C24: what the chart and the metrics panel take from the frame.          *)
(***************************************************************************)
Rendered24(name) ==
    /\ pc = "done"
    /\ fn = name
    /\ args[1].kind = "DataFrame"
    /\ args[1].records # <<>>

\* how often the record stands in the sequence
Count(records, r) == Cardinality({i \in DOMAIN records : records[i] = r})

\* C24: the data fed to the temperature chart is ordered by sol ascending
\* and consists exactly of the min(7, count) records with the highest sols
\* of the weather collection; the metrics panel reads the first record of
\* that collection, which is a record with the maximum sol.
C24_ChartTakesLatestSolsAscending ==
    /\ Rendered24("render_temperature_chart") =>
          LET records == args[1].records
              data == result[1].data
          IN  /\ Len(data) = Min(MAX_SOLS_FOR_CHART, Len(records))
              /\ \A i, j \in DOMAIN data : i < j => data[i].sol <= data[j].sol
              /\ result[1].x = [i \in DOMAIN data |-> data[i].sol]
              /\ \A r \in Range(records) :
                    /\ Count(data, r) <= Count(records, r)
                    /\ Count(data, r) < Count(records, r) =>
                          \A i \in DOMAIN data : r.sol <= data[i].sol
              /\ \A i \in DOMAIN data : data[i] \in Range(records)
    /\ Rendered24("render_weather_metrics") =>
          /\ \A r \in Range(args[1].records) : r.sol <= args[1].records[1].sol
          /\ result[1].latest_sol = format_sol(args[1].records[1].sol)

\* eight days were fetched: the chart shows the sols 2 to 8 in this order,
\* and the day of sol 1, the last of the frame, is left out
C24_Witness ==
    /\ Rendered24("render_temperature_chart")
    /\ Len(args[1].records) = 8
    /\ args[1].records[1].sol = 8
    /\ args[1].records[8].sol = 1
    /\ result[1].x = <<2, 3, 4, 5, 6, 7, 8>>

\* the metrics panel shows the highest of eight sols
C24_MetricsWitness ==
    /\ Rendered24("render_weather_metrics")
    /\ Len(args[1].records) = 8
    /\ result[1].latest_sol = <<"S", "o", "l", " ", "8">>

(***************************************************************************)
(* src/ui/photo_gallery.py: the grid of render_photo_gallery.  st.columns  *)
(* returns a list of columns, numbered from 0 as the code does, and        *)
(* cols[col_idx] raises IndexError for an index the list does not have.    *)
(* images[i] is what load_image_from_url returned for the i-th photo:      *)
(* Some(image), or None when the download failed.                          *)
(***************************************************************************)
MaxGalleryPhotos == 7

\* the i-th photo of a day's list
GalleryPhoto(i) == photo_record(IF i % 2 = 1 THEN ImageA ELSE ImageB, 1)

GalleryLists ==
    { [i \in 1..k |-> GalleryPhoto(i)] : k \in 0..MaxGalleryPhotos }

GalleryArguments == {None} \cup { Some(list) : list \in GalleryLists }

\* st.columns(min(len(photos), 3)): how many columns there are
columns(photos) == Min(Len(photos), 3)

\* the index taken as it is, without the wrap to the three columns
col_idx_unwrapped(idx) == idx

\* col_idx = idx % 3
col_idx(idx) == idx % 3

\* the cell drawn for the photo at idx (from 0), in the column col_idx
gallery_cell(photos, idx, images) ==
    [idx |-> idx,
     column |-> col_idx(idx),
     loaded |-> photos[idx + 1].img_src,
     image |-> IF images[idx + 1] # None THEN "image"
               ELSE "error: Could not load image",
     details |-> [camera |-> photos[idx + 1].camera_name,
                  sol |-> photos[idx + 1].sol,
                  earth_date |-> photos[idx + 1].earth_date,
                  id |-> photos[idx + 1].id]]

\* render_photo_gallery(photos): the notices, the number of columns made,
\* the cells drawn in the order of the loop, and the exception that ended it
photo_gallery_grid(photos, images) ==
    IF photos = None \/ photos[1] = <<>>
    THEN [notices |-> <<"warning: No photos available for this rover">>,
          columns |-> 0, cells |-> <<>>, raised |-> None]
    ELSE
      LET list == photos[1]
          cols == columns(list)
          \* the indexes the loop reaches before cols[col_idx] fails
          outside == {idx \in 0..(Len(list) - 1) : col_idx(idx) >= cols}
          reached == IF outside = {} THEN Len(list)
                     ELSE CHOOSE idx \in outside : \A other \in outside : idx <= other
      IN  [notices |-> <<>>,
           columns |-> cols,
           cells |-> [i \in 1..reached |-> gallery_cell(list, i - 1, images)],
           raised |-> IF outside = {} THEN None ELSE Some(Exc("IndexError", {"LookupError"}))]

CallRenderPhotoGallery ==
    /\ pc = "idle"
    /\ \E photos \in GalleryArguments :
        \E images \in [1..(IF photos = None THEN 0 ELSE Len(photos[1])) ->
                          {None, Some("image")}] :
          LET out == photo_gallery_grid(photos, images)
          IN  /\ args' = <<photos>>
              /\ notices' = out.notices
              /\ result' = [columns |-> out.columns, cells |-> out.cells,
                            raised |-> out.raised]
    /\ fn' = "render_photo_gallery"
    /\ requests' = <<>>
    /\ pc' = "done"
    /\ UNCHANGED shared

NextGallery == CallRenderPhotoGallery \/ Rerun

SpecGallery == Init /\ [][NextGallery]_vars

(***************************************************************************)
(* C26: no photo is placed in a column that was not made.                  *)
(***************************************************************************)
GalleryRendered == pc = "done" /\ fn = "render_photo_gallery"

\* C26: in render_photo_gallery, for every non-empty photo list the column
\* index idx % 3 used for each photo is less than the number of columns
\* made, min(len(photos), 3), so that every photo is placed and none in a
\* column that does not exist; for None or an empty list no column is made
\* and no image is loaded.
C26_EveryPhotoInAnExistingColumn ==
    GalleryRendered =>
        IF args[1] = None \/ args[1][1] = <<>>
        THEN /\ result.columns = 0
             /\ result.cells = <<>>
             /\ result.raised = None
        ELSE /\ result.raised = None
             /\ result.columns = Min(Len(args[1][1]), 3)
             /\ Len(result.cells) = Len(args[1][1])
             /\ \A i \in DOMAIN result.cells :
                   /\ result.cells[i].column = (i - 1) % 3
                   /\ result.cells[i].column < result.columns
                   /\ result.cells[i].loaded = args[1][1][i].img_src

\* five photos in three columns: the fourth one is back in the first column
C26_Witness ==
    /\ GalleryRendered
    /\ args[1] # None
    /\ Len(args[1][1]) = 5
    /\ result.columns = 3
    /\ Len(result.cells) = 5
    /\ result.cells[4].column = 0
    /\ result.cells[5].column = 1

\* two photos make two columns, and both indexes are below 2
C26_TwoPhotosTwoColumns ==
    /\ GalleryRendered
    /\ args[1] # None
    /\ Len(args[1][1]) = 2
    /\ result.columns = 2
    /\ result.cells[2].column = 1

=============================================================================
